---- MODULE Spec2Model ----
(***************************************************************************)
(* A model of the Go Error Collapse extension: the block scanner           *)
(* (ErrorBlockDetector.performDetection and its helpers), the result cache *)
(* and the debounce timers of ErrorBlockDetector, and the parts of the     *)
(* extension glue that call into them.                                     *)
(*                                                                         *)
(* A JavaScript string is modelled as a sequence of one-character strings, *)
(* a document as the sequence of its lines (document.getText().split('\n')).*)
(* Line numbers are 0-based as in the source; sequences are 1-based, so    *)
(* line number i is lines[i + 1].                                          *)
(***************************************************************************)
EXTENDS Integers, Sequences, FiniteSets, TLC

----------------------------------------------------------------------------
(* Characters and the regular-expression classes \s and \w.                *)

Lower == {"a", "b", "c", "d", "e", "f", "g", "h", "i", "j", "k", "l", "m",
          "n", "o", "p", "q", "r", "s", "t", "u", "v", "w", "x", "y", "z"}

Upper == {"A", "B", "C", "D", "E", "F", "G", "H", "I", "J", "K", "L", "M",
          "N", "O", "P", "Q", "R", "S", "T", "U", "V", "W", "X", "Y", "Z"}

Digits == {"0", "1", "2", "3", "4", "5", "6", "7", "8", "9"}

LowerOf ==
    [c \in Upper |->
        CASE c = "A" -> "a" [] c = "B" -> "b" [] c = "C" -> "c" [] c = "D" -> "d"
          [] c = "E" -> "e" [] c = "F" -> "f" [] c = "G" -> "g" [] c = "H" -> "h"
          [] c = "I" -> "i" [] c = "J" -> "j" [] c = "K" -> "k" [] c = "L" -> "l"
          [] c = "M" -> "m" [] c = "N" -> "n" [] c = "O" -> "o" [] c = "P" -> "p"
          [] c = "Q" -> "q" [] c = "R" -> "r" [] c = "S" -> "s" [] c = "T" -> "t"
          [] c = "U" -> "u" [] c = "V" -> "v" [] c = "W" -> "w" [] c = "X" -> "x"
          [] c = "Y" -> "y" [] c = "Z" -> "z"]

\* Case folding of the regular-expression flag i.
ToLower(c) == IF c \in Upper THEN LowerOf[c] ELSE c

\* The class \s, over the characters a document line can hold.
IsSpace(c) == c \in {" ", "\t", "\r"}

\* The class \w.
IsWord(c) == c \in Lower \cup Upper \cup Digits \cup {"_"}

\* The first position at or after i of s that holds no white space
\* (Len(s) + 1 when there is none): where a greedy \s* stops.
RECURSIVE SkipSpaces(_, _)
SkipSpaces(s, i) ==
    IF i <= Len(s) /\ IsSpace(s[i]) THEN SkipSpaces(s, i + 1) ELSE i

\* The first position at or after i of s that holds no word character:
\* where a greedy \w* stops.
RECURSIVE SkipWord(_, _)
SkipWord(s, i) ==
    IF i <= Len(s) /\ IsWord(s[i]) THEN SkipWord(s, i + 1) ELSE i

\* s holds the literal lit at position i.
MatchLit(s, i, lit) ==
    /\ i >= 1
    /\ i + Len(lit) - 1 <= Len(s)
    /\ \A k \in 1..Len(lit) : s[i + k - 1] = lit[k]

\* s holds the literal lit at position i, letter case ignored.
MatchLitCI(s, i, lit) ==
    /\ i >= 1
    /\ i + Len(lit) - 1 <= Len(s)
    /\ \A k \in 1..Len(lit) : ToLower(s[i + k - 1]) = ToLower(lit[k])

\* s holds one of the literals of the set lits at position i, case ignored.
MatchAnyCI(s, i, lits) == \E lit \in lits : MatchLitCI(s, i, lit)

\* sub occurs in s as a substring.
Contains(s, sub) == \E i \in 1..(Len(s) + 1) : MatchLit(s, i, sub)

\* The number of occurrences of the character c in s.
CountChar(s, c) == Cardinality({i \in 1..Len(s) : s[i] = c})

\* The last position of s that holds no white space (0 when there is none).
RECURSIVE LastNonSpace(_, _)
LastNonSpace(s, i) ==
    IF i >= 1 /\ IsSpace(s[i]) THEN LastNonSpace(s, i - 1) ELSE i

\* String.prototype.trim.
Trim(s) ==
    LET a == SkipSpaces(s, 1)
        b == LastNonSpace(s, Len(s))
    IN  IF a > b THEN << >> ELSE SubSeq(s, a, b)

\* String.prototype.replace(/\s+/g, ' ') on the positions lo to hi of s:
\* every maximal run of white space becomes one blank, which stands for
\* the first character of the run.
RECURSIVE CollapseRange(_, _, _)
CollapseRange(s, lo, hi) ==
    IF lo > hi THEN << >>
    ELSE IF lo = hi
    THEN IF ~IsSpace(s[lo]) THEN <<s[lo]>>
         ELSE IF lo > 1 /\ IsSpace(s[lo - 1]) THEN << >>
         ELSE <<" ">>
    ELSE LET mid == (lo + hi) \div 2
         IN  CollapseRange(s, lo, mid) \o CollapseRange(s, mid + 1, hi)

CollapseSpaces(s) == CollapseRange(s, 1, Len(s))

\* Array.prototype.join(' ').
RECURSIVE JoinWithSpace(_)
JoinWithSpace(ss) ==
    IF ss = << >> THEN << >>
    ELSE IF Len(ss) = 1 THEN ss[1]
    ELSE ss[1] \o <<" ">> \o JoinWithSpace(Tail(ss))

----------------------------------------------------------------------------
(* The block scanner.                                                      *)

\* A result that may be null is the empty tuple (null) or the 1-tuple of
\* its value.
Null == << >>

\* ConfigManager.getErrorVariablePattern, as the set of words the group it
\* builds matches in full: (\w*p1\w*|\w*p2\w*|...) matches a run of word
\* characters that contains one of the fragments; the group of an empty
\* fragment list is () and matches only the empty word.
getErrorVariablePattern(patterns, word) ==
    IF patterns = << >> THEN word = << >>
    ELSE \E k \in 1..Len(patterns) : Contains(word, patterns[k])

\* line.match(ifErrPattern), ifErrPattern being
\*   ^(\s*)if\s+<errorVarPattern>\s*!=\s*nil\s*\{\s*$
\* The result is null, or the match with its group 1 (the indentation). No
\* character class of the pattern overlaps the literal that follows it
\* (fragments are made of word characters), so each greedy run ends where
\* the only possible match puts it.
ifErrMatch(line, patterns) ==
    LET p1 == SkipSpaces(line, 1)
        p2 == p1 + 2
        p3 == SkipSpaces(line, p2)
        p4 == SkipWord(line, p3)
        p5 == SkipSpaces(line, p4)
        p6 == SkipSpaces(line, p5 + 2)
        p7 == SkipSpaces(line, p6 + 3)
        p8 == SkipSpaces(line, p7 + 1)
    IN  IF /\ MatchLit(line, p1, <<"i", "f">>)
           /\ p3 > p2
           /\ getErrorVariablePattern(patterns, SubSeq(line, p3, p4 - 1))
           /\ MatchLit(line, p5, <<"!", "=">>)
           /\ MatchLit(line, p6, <<"n", "i", "l">>)
           /\ MatchLit(line, p7, <<"{">>)
           /\ p8 = Len(line) + 1
        THEN <<[indentation |-> SubSeq(line, 1, p1 - 1)]>>
        ELSE Null

\* /\}\s*else\s*\{/.test(line)
HasElseAfterBrace(line) ==
    \E k \in 1..Len(line) :
        LET q == SkipSpaces(line, k + 1)
            r == SkipSpaces(line, q + 4)
        IN  /\ line[k] = "}"
            /\ MatchLit(line, q, <<"e", "l", "s", "e">>)
            /\ MatchLit(line, r, <<"{">>)

\* The test for an else on the next line left out.
StartsWithElse_Never(line) == FALSE

\* /^\s*else\s*\{/.test(line)
StartsWithElse(line) ==
    LET q == SkipSpaces(line, 1)
        r == SkipSpaces(line, q + 4)
    IN  /\ MatchLit(line, q, <<"e", "l", "s", "e">>)
        /\ MatchLit(line, r, <<"{">>)

\* The while loop of findBlockEnd from line j on, with braceCount open
\* braces and the body lines gathered so far.
RECURSIVE findBlockEndLoop(_, _, _, _, _, _)
\* The loop of findBlockEnd without the comparison of the closing line's
\* indentation with the header's.
findBlockEndLoop_AnyIndentation(lines, j, braceCount, bodyLines, bodyStartLine, expectedIndentation) ==
    IF ~(j < Len(lines) /\ braceCount > 0) THEN Null
    ELSE
        LET currentLine == lines[j + 1]
            count == braceCount + CountChar(currentLine, "{")
                                - CountChar(currentLine, "}")
        IN  IF count > 0
            THEN findBlockEndLoop(lines, j + 1, count, Append(bodyLines, currentLine),
                                  bodyStartLine, expectedIndentation)
            ELSE IF MatchLit(currentLine, SkipSpaces(currentLine, 1), <<"}">>)
            THEN IF \/ HasElseAfterBrace(currentLine)
                    \/ (j + 1 < Len(lines) /\ StartsWithElse(lines[j + 2]))
                 THEN Null
                 ELSE <<[endLine |-> j, bodyLines |-> bodyLines,
                         bodyStartLine |-> bodyStartLine]>>
            ELSE Null

findBlockEndLoop(lines, j, braceCount, bodyLines, bodyStartLine, expectedIndentation) ==
    IF ~(j < Len(lines) /\ braceCount > 0) THEN Null
    ELSE
        LET currentLine == lines[j + 1]
            openBraces == CountChar(currentLine, "{")
            closeBraces == CountChar(currentLine, "}")
            count == braceCount + openBraces - closeBraces
            p == SkipSpaces(currentLine, 1)
            closingMatch == MatchLit(currentLine, p, <<"}">>)
        IN  IF count > 0
            THEN findBlockEndLoop(lines, j + 1, count, Append(bodyLines, currentLine),
                                  bodyStartLine, expectedIndentation)
            ELSE IF closingMatch /\ SubSeq(currentLine, 1, p - 1) = expectedIndentation
            THEN IF \/ HasElseAfterBrace(currentLine)
                    \/ (j + 1 < Len(lines) /\ StartsWithElse(lines[j + 2]))
                 THEN Null
                 ELSE <<[endLine |-> j, bodyLines |-> bodyLines,
                         bodyStartLine |-> bodyStartLine]>>
            ELSE findBlockEndLoop(lines, j + 1, count, bodyLines,
                                  bodyStartLine, expectedIndentation)

\* findBlockEnd taking the header's line for the first line of the body
\* (bodyStartLine = startIndex).
findBlockEnd_BodyAtHeader(lines, startIndex, expectedIndentation) ==
    findBlockEndLoop(lines, startIndex + 1, 1, << >>, startIndex,
                     expectedIndentation)

\* findBlockEnd taking the last line of the text for the closing line of a
\* header that the loop did not close.
findBlockEnd_ClosesAtEnd(lines, startIndex, expectedIndentation) ==
    LET found == findBlockEndLoop(lines, startIndex + 1, 1, << >>, startIndex + 1,
                                  expectedIndentation)
    IN  IF found = Null /\ startIndex + 2 < Len(lines)
        THEN <<[endLine |-> Len(lines) - 1,
                bodyLines |-> SubSeq(lines, startIndex + 2, Len(lines) - 1),
                bodyStartLine |-> startIndex + 1]>>
        ELSE found

\* ErrorBlockDetector.findBlockEnd
findBlockEnd(lines, startIndex, expectedIndentation) ==
    findBlockEndLoop(lines, startIndex + 1, 1, << >>, startIndex + 1,
                     expectedIndentation)

\* The filter of isSimpleErrorReturn and extractBodyStatement: the line is
\* neither blank nor a comment-only line.
IsStatementLine(line) ==
    LET trimmed == Trim(line)
    IN  Len(trimmed) > 0 /\ ~MatchLit(trimmed, 1, <<"/", "/">>)

RECURSIVE nonEmptyLines(_)
\* The filter dropping the blank lines only: a comment-only line is kept
\* as a statement.
nonEmptyLines_KeepsComments(bodyLines) ==
    IF bodyLines = << >> THEN << >>
    ELSE (IF Len(Trim(bodyLines[1])) > 0 THEN <<bodyLines[1]>> ELSE << >>)
         \o nonEmptyLines(Tail(bodyLines))

nonEmptyLines(bodyLines) ==
    IF bodyLines = << >> THEN << >>
    ELSE (IF IsStatementLine(bodyLines[1]) THEN <<bodyLines[1]>> ELSE << >>)
         \o nonEmptyLines(Tail(bodyLines))

\* The alternatives of the call patterns of validLinePatterns.
LogCalls ==
    {<<"F", "a", "t", "a", "l">>, <<"P", "a", "n", "i", "c">>,
     <<"E", "r", "r", "o", "r">>, <<"W", "a", "r", "n">>,
     <<"I", "n", "f", "o">>, <<"P", "r", "i", "n", "t">>}

FmtCalls ==
    {<<"P", "r", "i", "n", "t">>, <<"E", "r", "r", "o", "r", "f">>,
     <<"F", "p", "r", "i", "n", "t">>, <<"S", "p", "r", "i", "n", "t">>}

LoggerCalls ==
    {<<"F", "a", "t", "a", "l">>, <<"E", "r", "r", "o", "r">>,
     <<"W", "a", "r", "n">>, <<"I", "n", "f", "o">>,
     <<"D", "e", "b", "u", "g">>, <<"P", "r", "i", "n", "t">>}

ExitCalls ==
    {<<"o", "s", ".", "E", "x", "i", "t">>,
     <<"s", "y", "s", "c", "a", "l", "l", ".", "E", "x", "i", "t">>}

\* /^return\b/i at position i of s: the word return, then no word character.
MatchReturnCI(s, i) ==
    /\ MatchLitCI(s, i, <<"r", "e", "t", "u", "r", "n">>)
    /\ (i + 6 > Len(s) \/ ~IsWord(s[i + 6]))

\* /^\s*return\b/ (case-sensitive), the test of the return count.
IsReturnLine(line) ==
    LET i == SkipSpaces(line, 1)
    IN  /\ MatchLit(line, i, <<"r", "e", "t", "u", "r", "n">>)
        /\ (i + 6 > Len(line) \/ ~IsWord(line[i + 6]))

\* validLinePatterns with the call of panic read as the call of any
\* function (/^\w+\s*\(/ for /^panic\s*\(/).
validLinePatterns_AnyCall(trimmed) ==
    \/ MatchReturnCI(trimmed, 1)
    \/ /\ MatchLitCI(trimmed, 1, <<"l", "o", "g", ".">>)
       /\ MatchAnyCI(trimmed, 5, LogCalls)
    \/ /\ MatchLitCI(trimmed, 1, <<"f", "m", "t", ".">>)
       /\ MatchAnyCI(trimmed, 5, FmtCalls)
    \/ LET w == SkipWord(trimmed, 1)
       IN  w > 1 /\ MatchLit(trimmed, SkipSpaces(trimmed, w), <<"(">>)
    \/ LET d == SkipWord(trimmed, 1)
       IN  /\ d > 1
           /\ MatchLit(trimmed, d, <<".">>)
           /\ MatchAnyCI(trimmed, d + 1, LoggerCalls)
    \/ MatchAnyCI(trimmed, 1, ExitCalls)

\* One of validLinePatterns matches the trimmed line.
validLinePatterns(trimmed) ==
    \/ MatchReturnCI(trimmed, 1)
    \/ /\ MatchLitCI(trimmed, 1, <<"l", "o", "g", ".">>)
       /\ MatchAnyCI(trimmed, 5, LogCalls)
    \/ /\ MatchLitCI(trimmed, 1, <<"f", "m", "t", ".">>)
       /\ MatchAnyCI(trimmed, 5, FmtCalls)
    \/ /\ MatchLitCI(trimmed, 1, <<"p", "a", "n", "i", "c">>)
       /\ MatchLit(trimmed, SkipSpaces(trimmed, 6), <<"(">>)
    \/ LET d == SkipWord(trimmed, 1)
       IN  /\ d > 1
           /\ MatchLit(trimmed, d, <<".">>)
           /\ MatchAnyCI(trimmed, d + 1, LoggerCalls)
    \/ MatchAnyCI(trimmed, 1, ExitCalls)

\* isSimpleErrorReturn allowing four statement lines (> 4 for > 3).
isSimpleErrorReturn_AtMostFour(bodyLines) ==
    LET nonEmpty == nonEmptyLines(bodyLines)
        returnCount ==
            Cardinality({k \in 1..Len(nonEmpty) : IsReturnLine(nonEmpty[k])})
    IN  /\ Len(nonEmpty) # 0
        /\ Len(nonEmpty) <= 4
        /\ \A k \in 1..Len(nonEmpty) : validLinePatterns(Trim(nonEmpty[k]))
        /\ returnCount <= 1

\* isSimpleErrorReturn allowing two statement lines at most (> 2 for > 3).
isSimpleErrorReturn_AtMostTwo(bodyLines) ==
    LET nonEmpty == nonEmptyLines(bodyLines)
        returnCount ==
            Cardinality({k \in 1..Len(nonEmpty) : IsReturnLine(nonEmpty[k])})
    IN  /\ Len(nonEmpty) # 0
        /\ Len(nonEmpty) <= 2
        /\ \A k \in 1..Len(nonEmpty) : validLinePatterns(Trim(nonEmpty[k]))
        /\ returnCount <= 1

\* ErrorBlockDetector.isSimpleErrorReturn
isSimpleErrorReturn(bodyLines) ==
    LET nonEmpty == nonEmptyLines(bodyLines)
        returnCount ==
            Cardinality({k \in 1..Len(nonEmpty) : IsReturnLine(nonEmpty[k])})
    IN  /\ Len(nonEmpty) # 0
        /\ Len(nonEmpty) <= 3
        /\ \A k \in 1..Len(nonEmpty) : validLinePatterns(Trim(nonEmpty[k]))
        /\ returnCount <= 1

\* extractBodyStatement joining the lines of a body without replacing the
\* runs of white space (no .replace(/\s+/g, ' ')).
extractBodyStatement_JoinOnly(bodyLines) ==
    LET nonEmpty == nonEmptyLines(bodyLines)
    IN  IF Len(nonEmpty) = 0 THEN <<"r", "e", "t", "u", "r", "n", " ", "e", "r", "r">>
        ELSE IF Len(nonEmpty) = 1 THEN Trim(nonEmpty[1])
        ELSE Trim(JoinWithSpace([k \in 1..Len(nonEmpty) |-> Trim(nonEmpty[k])]))

\* ErrorBlockDetector.extractBodyStatement
extractBodyStatement(bodyLines) ==
    LET nonEmpty == nonEmptyLines(bodyLines)
    IN  IF Len(nonEmpty) = 0 THEN <<"r", "e", "t", "u", "r", "n", " ", "e", "r", "r">>
        ELSE IF Len(nonEmpty) = 1 THEN Trim(nonEmpty[1])
        ELSE Trim(CollapseSpaces(JoinWithSpace(
                 [k \in 1..Len(nonEmpty) |-> Trim(nonEmpty[k])])))

\* The positions at which the lazy group (.+?) of /if\s+(.+?)\s*\{/ can
\* end when it starts at p: the group holds at least one character and no
\* line terminator, and \s*\{ follows it.
CondEnds(line, p) ==
    {e \in (p + 1)..Len(line) :
        /\ \A x \in p..(e - 1) : line[x] # "\r"
        /\ MatchLit(line, SkipSpaces(line, e), <<"{">>)}

SetMin(S) == CHOOSE x \in S : \A y \in S : x <= y

SetMax(S) == CHOOSE x \in S : \A y \in S : x >= y

\* The match of /if\s+(.+?)\s*\{/ that starts at position k, as group 1
\* (the condition) or null: \s+ is greedy and gives white space back only
\* when nothing matches behind it, (.+?) takes the fewest characters.
condMatchAt(line, k) ==
    LET p3 == SkipSpaces(line, k + 2)
        starts == {p \in (k + 3)..p3 : CondEnds(line, p) # {}}
    IN  IF MatchLit(line, k, <<"i", "f">>) /\ starts # {}
        THEN LET p == SetMax(starts)
             IN  <<SubSeq(line, p, SetMin(CondEnds(line, p)) - 1)>>
        ELSE Null

\* ifLine.match(/if\s+(.+?)\s*\{/): the leftmost match.
condMatch(ifLine) ==
    LET ks == {k \in 1..Len(ifLine) : condMatchAt(ifLine, k) # Null}
    IN  IF ks = {} THEN Null ELSE condMatchAt(ifLine, SetMin(ks))

\* maxBodyLength of generateCollapsedText
maxBodyLength == 50

\* generateCollapsedText truncating a body of maxBodyLength characters
\* too (>= for >).
generateCollapsedText_Inclusive(ifLine, bodyStatement) ==
    LET m == condMatch(ifLine)
        condition == IF m # Null THEN m[1]
                     ELSE <<"e", "r", "r", " ", "!", "=", " ", "n", "i", "l">>
        displayBody == IF Len(bodyStatement) >= maxBodyLength
                       THEN SubSeq(bodyStatement, 1, maxBodyLength) \o <<".", ".", ".">>
                       ELSE bodyStatement
    IN  <<"i", "f", " ">> \o condition \o <<" ", "{", " ">> \o displayBody
        \o <<" ", "}">>

\* ErrorBlockDetector.generateCollapsedText
generateCollapsedText(ifLine, bodyStatement) ==
    LET m == condMatch(ifLine)
        condition == IF m # Null THEN m[1]
                     ELSE <<"e", "r", "r", " ", "!", "=", " ", "n", "i", "l">>
        displayBody == IF Len(bodyStatement) > maxBodyLength
                       THEN SubSeq(bodyStatement, 1, maxBodyLength) \o <<".", ".", ".">>
                       ELSE bodyStatement
    IN  <<"i", "f", " ">> \o condition \o <<" ", "{", " ">> \o displayBody
        \o <<" ", "}">>

\* The while loop of performDetection from line i on, with the blocks
\* found so far.
RECURSIVE detectionLoop(_, _, _, _)
\* The loop of performDetection advancing one line past the header of a
\* candidate whose body is not simple (i++ for i = endLine + 1).
detectionLoop_RescanRejected(lines, patterns, i, blocks) ==
    IF ~(i < Len(lines)) THEN blocks
    ELSE
        LET line == lines[i + 1]
            match == ifErrMatch(line, patterns)
            indentation == match[1].indentation
            result == findBlockEnd(lines, i, indentation)
            endLine == result[1].endLine
            bodyStatement == extractBodyStatement(result[1].bodyLines)
            block == [startLine |-> i,
                      endLine |-> endLine,
                      bodyStartLine |-> result[1].bodyStartLine,
                      indentation |-> indentation,
                      collapsedText |-> generateCollapsedText(line, bodyStatement),
                      bodyStatement |-> bodyStatement,
                      fullRange |-> [startLine |-> i, startCharacter |-> 0,
                                     endLine |-> endLine,
                                     endCharacter |-> Len(lines[endLine + 1])]]
        IN  IF match # Null /\ result # Null /\ isSimpleErrorReturn(result[1].bodyLines)
            THEN detectionLoop(lines, patterns, endLine + 1, Append(blocks, block))
            ELSE detectionLoop(lines, patterns, i + 1, blocks)

detectionLoop(lines, patterns, i, blocks) ==
    IF ~(i < Len(lines)) THEN blocks
    ELSE
        LET line == lines[i + 1]
            match == ifErrMatch(line, patterns)
            startLine == i
            indentation == match[1].indentation
            result == findBlockEnd(lines, i, indentation)
            endLine == result[1].endLine
            bodyStatement == extractBodyStatement(result[1].bodyLines)
            block == [startLine |-> startLine,
                      endLine |-> endLine,
                      bodyStartLine |-> result[1].bodyStartLine,
                      indentation |-> indentation,
                      collapsedText |-> generateCollapsedText(line, bodyStatement),
                      bodyStatement |-> bodyStatement,
                      fullRange |-> [startLine |-> startLine, startCharacter |-> 0,
                                     endLine |-> endLine,
                                     endCharacter |-> Len(lines[endLine + 1])]]
        IN  IF match # Null /\ result # Null
            THEN detectionLoop(lines, patterns, endLine + 1,
                               IF isSimpleErrorReturn(result[1].bodyLines)
                               THEN Append(blocks, block) ELSE blocks)
            ELSE detectionLoop(lines, patterns, i + 1, blocks)

\* The sequence s in reverse order.
RECURSIVE Reverse(_)
Reverse(s) == IF s = << >> THEN << >> ELSE Append(Reverse(Tail(s)), Head(s))

\* performDetection adding each block at the front of the list
\* (blocks.unshift for blocks.push).
performDetection_Unshift(lines, patterns) ==
    Reverse(detectionLoop(lines, patterns, 0, << >>))

\* ErrorBlockDetector.performDetection on the lines of a document, with
\* the configured fragments (ConfigManager.errorPatterns).
performDetection(lines, patterns) == detectionLoop(lines, patterns, 0, << >>)

----------------------------------------------------------------------------
(* Documents, configurations and bounds.                                   *)

\* The open documents, by document.uri.toString().
Uris == {"file:///a.go", "file:///b.go"}

\* The document the active editor shows, when there is an active editor.
Editors == {"file:///a.go"}

\* if err != nil {
\*     return err
\* }
ErrText ==
    <<<<"i", "f", " ", "e", "r", "r", " ", "!", "=", " ", "n", "i", "l", " ", "{">>,
      <<"\t", "r", "e", "t", "u", "r", "n", " ", "e", "r", "r">>,
      <<"}">>>>

\* if ok != nil {
\*     return ok
\* }
OkText ==
    <<<<"i", "f", " ", "o", "k", " ", "!", "=", " ", "n", "i", "l", " ", "{">>,
      <<"\t", "r", "e", "t", "u", "r", "n", " ", "o", "k">>,
      <<"}">>>>

\* The texts a document can hold.
Texts == {ErrText, OkText}

\* The default of goErrorCollapse.errorPatterns: ['err', 'error'].
DefaultPatterns == <<<<"e", "r", "r">>, <<"e", "r", "r", "o", "r">>>>

\* A user setting of goErrorCollapse.errorPatterns: ['ok'].
OkPatterns == <<<<"o", "k">>>>

\* The values goErrorCollapse.errorPatterns takes.
Configs == {DefaultPatterns, OkPatterns}

\* ErrorBlockDetector.DEBOUNCE_DELAY, in ms
DEBOUNCE_DELAY == 150

\* ErrorBlockDetector.CACHE_TTL, in ms
CACHE_TTL == 5000

\* The clock advances by the debounce delay or by the TTL.
TimeSteps == {DEBOUNCE_DELAY, CACHE_TTL}

\* The highest document version of a run (a document opens at version 1).
MaxVersion == 2

\* The number of clock steps of a run of the cache.
MaxTicks == 1

\* The number of detectDebounced calls of a run of the cache.
MaxCalls == 1

\* The number of clock steps of a run of bursts of debounced calls.
MaxBurstTicks == 2

\* The number of detectDebounced calls of a run of bursts of debounced calls.
MaxBurstCalls == 3

----------------------------------------------------------------------------
(* The state: the documents and the configuration the editor holds, the    *)
(* clock, the fields of ErrorBlockDetector, the timeouts of the runtime,   *)
(* the collapse states of the extension, and what the last operation did.  *)

VARIABLES
    documents,       \* uri -> [version, lines]: the open TextDocuments
    errorPatterns,   \* the setting goErrorCollapse.errorPatterns
    now,             \* Date.now(), in ms
    ticks,           \* the number of clock steps taken
    cache,           \* ErrorBlockDetector.cache: uri -> DocumentCache
    debounceTimers,  \* ErrorBlockDetector.debounceTimers: uri -> timer id
    timeouts,        \* the timeouts set, not yet fired and not cleared
    nextTimer,       \* the id the next setTimeout returns
    documentStates,  \* extension.ts documentStates: uri -> CollapseState
    invalidated,     \* the uris invalidateCache was called for, with no
                     \* detectErrorBlocks since
    lastOp,          \* the last operation and what it observed
    openDocuments,   \* the uris of the documents not closed
    transparentDecoration,
                     \* DecorationManager.transparentDecoration
    orphanDecorations,
                     \* the transparency decorations shown in an editor
                     \* that the manager no longer refers to
    hintDecorations, \* the keys of DecorationManager.hintDecorations
    delays,          \* the handlers of extension.ts waiting in a delay
    detection        \* the position of a performDetection call under way

vars == <<documents, errorPatterns, now, ticks, cache, debounceTimers, timeouts,
          nextTimer, documentStates, invalidated, lastOp, openDocuments,
          transparentDecoration, orphanDecorations, hintDecorations, delays,
          detection>>

\* The state of the decorations, of the delayed handlers and of a scan
\* under way, which the detector's operations leave alone.
extensionVars == <<openDocuments, transparentDecoration, orphanDecorations,
                   hintDecorations, delays, detection>>

\* A Map with no entry.
EmptyMap == [x \in {} |-> 0]

\* Map.prototype.set
MapSet(m, k, v) == [x \in DOMAIN m \cup {k} |-> IF x = k THEN v ELSE m[x]]

\* Map.prototype.delete
MapDelete(m, k) == [x \in DOMAIN m \ {k} |-> m[x]]

\* Map.prototype.get, as a result that may be undefined (null).
MapGet(m, k) == IF k \in DOMAIN m THEN <<m[k]>> ELSE Null

\* performDetection on every text under every configuration, computed once.
ScanTable == [t \in Texts |-> [p \in Configs |-> performDetection(t, p)]]

\* this.performDetection(document), with the fragments configured when it
\* runs.
Scanner(uri, patterns) == ScanTable[documents[uri].lines][patterns]

\* The test with the debounce delay taken for the TTL.
cachedIsValid_DebounceDelay(uri) ==
    /\ uri \in DOMAIN cache
    /\ cache[uri].version = documents[uri].version
    /\ now - cache[uri].timestamp < DEBOUNCE_DELAY

\* The test with an entry as old as the TTL taken for valid.
cachedIsValid_Inclusive(uri) ==
    /\ uri \in DOMAIN cache
    /\ cache[uri].version = documents[uri].version
    /\ now - cache[uri].timestamp <= CACHE_TTL

\* The test with the version of the entry not compared.
cachedIsValid_AnyVersion(uri) ==
    /\ uri \in DOMAIN cache
    /\ now - cache[uri].timestamp < CACHE_TTL

\* The test of detectErrorBlocks for a cached result that is still valid.
cachedIsValid(uri) ==
    /\ uri \in DOMAIN cache
    /\ cache[uri].version = documents[uri].version
    /\ now - cache[uri].timestamp < CACHE_TTL

\* detectErrorBlocks storing the result of a scan only for a document that
\* has no entry: the entry of another version or past the TTL is kept.
detectErrorBlocksWith_KeepsEntry(uri, scan) ==
    IF cachedIsValid(uri)
    THEN [blocks |-> cache[uri].blocks, cache |-> cache, scanned |-> FALSE]
    ELSE [blocks |-> scan,
          cache |-> IF uri \in DOMAIN cache THEN cache
                    ELSE MapSet(cache, uri, [version |-> documents[uri].version,
                                             blocks |-> scan,
                                             timestamp |-> now]),
          scanned |-> TRUE]

\* detectErrorBlocks setting the timestamp of the entry it serves to the
\* time of the read.
detectErrorBlocksWith_RefreshesOnRead(uri, scan) ==
    IF cachedIsValid(uri)
    THEN [blocks |-> cache[uri].blocks,
          cache |-> MapSet(cache, uri, [cache[uri] EXCEPT !.timestamp = now]),
          scanned |-> FALSE]
    ELSE [blocks |-> scan,
          cache |-> MapSet(cache, uri, [version |-> documents[uri].version,
                                        blocks |-> scan,
                                        timestamp |-> now]),
          scanned |-> TRUE]

\* detectErrorBlocks with the list of blocks kept from one scan to the next:
\* a scan adds its blocks to those the cache holds of an earlier scan.
detectErrorBlocksWith_SharedBlocks(uri, scan) ==
    IF cachedIsValid(uri)
    THEN [blocks |-> cache[uri].blocks, cache |-> cache, scanned |-> FALSE]
    ELSE LET earlier == IF DOMAIN cache = {} THEN << >>
                        ELSE cache[CHOOSE u \in DOMAIN cache : TRUE].blocks
             blocks == earlier \o scan
         IN  [blocks |-> blocks,
              cache |-> MapSet(cache, uri, [version |-> documents[uri].version,
                                            blocks |-> blocks,
                                            timestamp |-> now]),
              scanned |-> TRUE]

\* ErrorBlockDetector.detectErrorBlocks: the blocks returned, the cache it
\* leaves, and whether it ran performDetection.
\* scan is what performDetection returns for the document, had it been called.
detectErrorBlocksWith(uri, scan) ==
    IF cachedIsValid(uri)
    THEN [blocks |-> cache[uri].blocks, cache |-> cache, scanned |-> FALSE]
    ELSE LET blocks == scan
         IN  [blocks |-> blocks,
              cache |-> MapSet(cache, uri, [version |-> documents[uri].version,
                                            blocks |-> blocks,
                                            timestamp |-> now]),
              scanned |-> TRUE]

detectErrorBlocks(uri, patterns) ==
    detectErrorBlocksWith(uri, Scanner(uri, patterns))

\* The timeouts left after clearTimeout(id): clearing a timeout that has
\* fired or was cleared does nothing.
clearTimeout(pending, id) == {t \in pending : t.id # id}

\* A timeout for uri that a detectDebounced call for uri, made before the
\* timeout's delay has elapsed, leaves pending is from now on superseded.
MarkSuperseded(pending, uri) ==
    {IF t.uri = uri /\ now < t.due THEN [t EXCEPT !.superseded = TRUE] ELSE t :
        t \in pending}

\* detectDebounced clearing every pending timeout, not the document's.
detectDebounced_ClearAll(timers, pending, uri) ==
    LET timer == [id |-> nextTimer, uri |-> uri, due |-> now + DEBOUNCE_DELAY,
                  superseded |-> FALSE, disposed |-> FALSE]
    IN  [debounceTimers |-> MapSet(EmptyMap, uri, nextTimer),
         timeouts |-> {timer}]

\* ErrorBlockDetector.detectDebounced(document, callback) on the timer map
\* and the pending timeouts given: the map and the timeouts it leaves. The
\* timeout stands for its closure, which holds the document and the
\* callback of this call.
detectDebounced(timers, pending, uri) ==
    LET existingTimer == MapGet(timers, uri)
        cleared == IF existingTimer # Null
                   THEN clearTimeout(pending, existingTimer[1])
                   ELSE pending
        timer == [id |-> nextTimer, uri |-> uri, due |-> now + DEBOUNCE_DELAY,
                  superseded |-> FALSE, disposed |-> FALSE]
    IN  [debounceTimers |-> MapSet(timers, uri, nextTimer),
         timeouts |-> MarkSuperseded(cleared, uri) \cup {timer}]

\* invalidateCache clearing the cache (cache.clear() for cache.delete).
invalidateCache_ClearsAll(uri) == EmptyMap

\* invalidateCache deleting under a key the cache does not hold.
invalidateCache_WrongKey(uri) == cache

\* ErrorBlockDetector.invalidateCache: the cache it leaves.
invalidateCache(uri) == MapDelete(cache, uri)

\* ErrorBlockDetector.clearAllCaches (and dispose, which only calls it): the
\* cache, the timer map and the timeouts it leaves. A timeout it leaves
\* pending has from now on outlived a dispose.
clearAllCaches ==
    LET registered == {debounceTimers[u] : u \in DOMAIN debounceTimers}
    IN  [cache |-> EmptyMap,
         debounceTimers |-> EmptyMap,
         timeouts |-> {[t EXCEPT !.disposed = TRUE] :
                          t \in {x \in timeouts : x.id \notin registered}}]

\* extension.ts getDocumentState: the states with the state of uri created
\* when there is none.
getDocumentState(states, uri) ==
    IF uri \in DOMAIN states THEN states
    ELSE MapSet(states, uri, [isCollapsed |-> FALSE, isTransparent |-> FALSE])

\* vscode.window.activeTextEditor when there is no editor.
NoEditor == "none"

\* What an operation finds in the cache for uri: an entry of the document's
\* version younger than the TTL ("valid"), an entry of another version
\* ("otherVersion"), an entry of the document's version as old as the TTL
\* or older ("expired"), or no entry ("none").
EntryFound(uri) ==
    IF uri \notin DOMAIN cache THEN "none"
    ELSE IF cache[uri].version # documents[uri].version THEN "otherVersion"
    ELSE IF now - cache[uri].timestamp < CACHE_TTL THEN "valid"
    ELSE "expired"

\* Whether a detectErrorBlocks call for uri is the next one after an
\* invalidateCache call for uri ("invalidate"), the call right before it
\* having been that invalidateCache and having removed a valid entry
\* ("invalidateValid"), or not ("other").
AfterInvalidate(uri) ==
    IF uri \notin invalidated THEN "other"
    ELSE IF /\ lastOp.op = "invalidateCache"
            /\ lastOp.doc = uri
            /\ lastOp.entry = "valid"
         THEN "invalidateValid"
         ELSE "invalidate"

\* What an operation observed: the entry it found in the cache for uri when
\* it looked ("unread" when it did not) and, when it called
\* detectErrorBlocks (detected), the blocks stored in the valid entry found,
\* its place after an invalidateCache, whether it ran performDetection and
\* the blocks it returned. A timeout that fired: the timeout.
Observation(op, uri, entry, detected, r, timer) ==
    [op |-> op, doc |-> uri, entry |-> entry, detected |-> detected,
     stored |-> IF detected /\ entry = "valid" THEN cache[uri].blocks ELSE << >>,
     after |-> IF detected THEN AfterInvalidate(uri) ELSE "other",
     scanned |-> IF detected THEN r.scanned ELSE FALSE,
     blocks |-> IF detected THEN r.blocks ELSE << >>,
     timer |-> timer]

\* No performDetection call is under way.
NoScan ==
    [phase |-> "idle", doc |-> NoEditor, i |-> 0, blocks |-> << >>,
     indentation |-> << >>, j |-> 0, braceCount |-> 0, bodyLines |-> << >>,
     visits |-> << >>]

\* The extension as activated: every document open, no decoration made, no
\* handler waiting, no scan under way.
ExtensionInit ==
    /\ openDocuments = Uris
    /\ transparentDecoration = Null
    /\ orphanDecorations = {}
    /\ hintDecorations = {}
    /\ delays = {}
    /\ detection = NoScan

NoResult == [blocks |-> << >>, cache |-> EmptyMap, scanned |-> FALSE]

Init ==
    /\ documents = [u \in Uris |-> [version |-> 1, lines |-> ErrText]]
    /\ errorPatterns = DefaultPatterns
    /\ now = 0
    /\ ticks = 0
    /\ cache = EmptyMap
    /\ debounceTimers = EmptyMap
    /\ timeouts = {}
    /\ nextTimer = 1
    /\ documentStates = EmptyMap
    /\ invalidated = {}
    /\ lastOp = [op |-> "init", doc |-> NoEditor, entry |-> "unread",
                 detected |-> FALSE, stored |-> << >>, after |-> "other",
                 scanned |-> FALSE, blocks |-> << >>, timer |-> Null]
    /\ ExtensionInit

\* Time passes, for at most maxTicks steps.
Tick(step, maxTicks) ==
    /\ ticks < maxTicks
    /\ now' = now + step
    /\ ticks' = ticks + 1
    /\ lastOp' = Observation("tick", NoEditor, "unread", FALSE, NoResult, Null)
    /\ UNCHANGED <<documents, errorPatterns, cache, debounceTimers, timeouts,
                   nextTimer, documentStates, invalidated,
                   extensionVars>>

\* The user edits a document: the text changes and the editor bumps the
\* version.
Edit(uri, lines) ==
    /\ documents[uri].version < MaxVersion
    /\ lines # documents[uri].lines
    /\ documents' = [documents EXCEPT ![uri] =
                        [version |-> @.version + 1, lines |-> lines]]
    /\ lastOp' = Observation("edit", uri, "unread", FALSE, NoResult, Null)
    /\ UNCHANGED <<errorPatterns, now, ticks, cache, debounceTimers, timeouts,
                   nextTimer, documentStates, invalidated,
                   extensionVars>>

\* A caller (the folding provider, a command) calls detectErrorBlocks.
DetectErrorBlocks(uri) ==
    LET r == detectErrorBlocks(uri, errorPatterns)
    IN  /\ cache' = r.cache
        /\ invalidated' = invalidated \ {uri}
        /\ lastOp' = Observation("detectErrorBlocks", uri, EntryFound(uri), TRUE, r, Null)
        /\ UNCHANGED <<documents, errorPatterns, now, ticks, debounceTimers,
                       timeouts, nextTimer, documentStates,
                       extensionVars>>

\* A caller calls detectDebounced, the run having at most maxCalls calls.
DetectDebounced(uri, maxCalls) ==
    /\ nextTimer <= maxCalls
    /\ LET r == detectDebounced(debounceTimers, timeouts, uri)
       IN  /\ debounceTimers' = r.debounceTimers
           /\ timeouts' = r.timeouts
    /\ nextTimer' = nextTimer + 1
    /\ lastOp' = Observation("detectDebounced", uri, "unread", FALSE, NoResult, Null)
    /\ UNCHANGED <<documents, errorPatterns, now, ticks, cache, documentStates,
                   invalidated,
                   extensionVars>>

\* A timeout set by detectDebounced fires, no earlier than its delay: the
\* closure calls detectErrorBlocks, then the callback, then deletes the
\* document's entry of the timer map. The callback takes the blocks and,
\* when again holds, calls detectDebounced for the same document.
Fire(t, again, maxCalls) ==
    /\ t \in timeouts
    /\ now >= t.due
    /\ again => nextTimer <= maxCalls
    /\ LET r == detectErrorBlocks(t.uri, errorPatterns)
           rest == timeouts \ {t}
           after == IF again
                    THEN detectDebounced(debounceTimers, rest, t.uri)
                    ELSE [debounceTimers |-> debounceTimers, timeouts |-> rest]
       IN  /\ cache' = r.cache
           /\ debounceTimers' = MapDelete(after.debounceTimers, t.uri)
           /\ timeouts' = after.timeouts
           /\ lastOp' = Observation("fire", t.uri, EntryFound(t.uri), TRUE, r,
                                    <<[superseded |-> t.superseded,
                                       disposed |-> t.disposed]>>)
    /\ nextTimer' = IF again THEN nextTimer + 1 ELSE nextTimer
    /\ invalidated' = invalidated \ {t.uri}
    /\ UNCHANGED <<documents, errorPatterns, now, ticks, documentStates,
                   extensionVars>>

\* A caller calls invalidateCache.
InvalidateCache(uri) ==
    /\ cache' = invalidateCache(uri)
    /\ invalidated' = invalidated \cup {uri}
    /\ lastOp' = Observation("invalidateCache", uri, EntryFound(uri), FALSE, NoResult, Null)
    /\ UNCHANGED <<documents, errorPatterns, now, ticks, debounceTimers,
                   timeouts, nextTimer, documentStates,
                   extensionVars>>

\* A caller calls clearAllCaches or dispose.
ClearAllCaches ==
    /\ cache' = clearAllCaches.cache
    /\ debounceTimers' = clearAllCaches.debounceTimers
    /\ timeouts' = clearAllCaches.timeouts
    /\ lastOp' = Observation("clearAllCaches", NoEditor, "unread", FALSE, NoResult, Null)
    /\ UNCHANGED <<documents, errorPatterns, now, ticks, nextTimer,
                   documentStates, invalidated,
                   extensionVars>>

\* DecorationManager.applyTransparency on an editor, blocks being what
\* detectErrorBlocks returned: a decoration is created and its ranges set.
\* The decoration the field referred to is not disposed: when it has ranges
\* it stays in its editor, with nothing referring to it.
applyTransparency(current, orphans, editor, blocks) ==
    [transparentDecoration |-> <<[editor |-> editor, ranges |-> Len(blocks)]>>,
     orphanDecorations |->
         orphans \cup {current[n] : n \in {k \in DOMAIN current : current[k].ranges > 0}}]

\* DecorationManager.removeTransparency: the decoration the field refers
\* to, if any, is disposed and the field set to null.
removeTransparency(current, orphans) ==
    [transparentDecoration |-> Null, orphanDecorations |-> orphans]

\* What the manager shows when a handler leaves the decorations alone.
SameDecorations ==
    [transparentDecoration |-> transparentDecoration,
     orphanDecorations |-> orphanDecorations]

\* A handler that scans the document of the active editor anew under the
\* fragments now configured, whatever the cache holds.
onConfigurationChange_Rescanning(editor, patterns) ==
    IF editor = NoEditor
    THEN [documentStates |-> documentStates, detected |-> FALSE, result |-> NoResult,
          decorations |-> SameDecorations]
    ELSE LET blocks == Scanner(editor, patterns)
         IN  [documentStates |-> getDocumentState(documentStates, editor),
              detected |-> TRUE,
              decorations |-> SameDecorations,
              result |-> [blocks |-> blocks,
                          cache |-> MapSet(cache, editor,
                                           [version |-> documents[editor].version,
                                            blocks |-> blocks,
                                            timestamp |-> now]),
                          scanned |-> TRUE]]

\* extension.ts onConfigurationChange with the active editor given: what
\* the handler leaves of the collapse states and of the cache, under the
\* fragments now configured. Every document is a Go document.
onConfigurationChange(editor, patterns) ==
    IF editor = NoEditor
    THEN [documentStates |-> documentStates, detected |-> FALSE, result |-> NoResult,
          decorations |-> SameDecorations]
    ELSE LET states == getDocumentState(documentStates, editor)
             result == detectErrorBlocks(editor, patterns)
             removed == removeTransparency(transparentDecoration, orphanDecorations)
         IN  IF states[editor].isTransparent
             THEN [documentStates |-> states, detected |-> TRUE,
                   result |-> result,
                   decorations |->
                       applyTransparency(removed.transparentDecoration,
                                         removed.orphanDecorations,
                                         editor, result.blocks)]
             ELSE [documentStates |-> states, detected |-> FALSE,
                   result |-> NoResult, decorations |-> SameDecorations]

\* The user changes goErrorCollapse.errorPatterns; the editor then runs the
\* configuration listener.
ChangeConfig(patterns, editor) ==
    /\ patterns # errorPatterns
    /\ editor \in openDocuments \cup {NoEditor}
    /\ errorPatterns' = patterns
    /\ \E h \in {onConfigurationChange(editor, patterns)} :
           /\ documentStates' = h.documentStates
           /\ cache' = IF h.detected THEN h.result.cache ELSE cache
           /\ invalidated' = IF h.detected THEN invalidated \ {editor}
                             ELSE invalidated
           /\ lastOp' = Observation("changeConfig", editor,
                                    IF h.detected THEN EntryFound(editor)
                                    ELSE "unread",
                                    h.detected, h.result, Null)
           /\ transparentDecoration' = h.decorations.transparentDecoration
           /\ orphanDecorations' = h.decorations.orphanDecorations
    /\ UNCHANGED <<documents, now, ticks, debounceTimers, timeouts, nextTimer,
                   openDocuments, hintDecorations, delays, detection>>

\* The command goErrorCollapse.makeTransparent on the active editor:
\* applyTransparency calls detectErrorBlocks for the ranges to dim.
MakeTransparent(editor) ==
    /\ editor \in openDocuments
    /\ \E r \in {detectErrorBlocks(editor, errorPatterns)} :
         \E shown \in {applyTransparency(transparentDecoration, orphanDecorations,
                                         editor, r.blocks)} :
           /\ cache' = r.cache
           /\ transparentDecoration' = shown.transparentDecoration
           /\ orphanDecorations' = shown.orphanDecorations
           /\ invalidated' = invalidated \ {editor}
           /\ lastOp' = Observation("makeTransparent", editor, EntryFound(editor), TRUE, r, Null)
    /\ documentStates' =
           [getDocumentState(documentStates, editor)
                EXCEPT ![editor].isTransparent = TRUE]
    /\ UNCHANGED <<documents, errorPatterns, now, ticks, debounceTimers,
                   timeouts, nextTimer, openDocuments, hintDecorations,
                   delays, detection>>

\* The command goErrorCollapse.resetTransparency on the active editor.
ResetTransparency(editor) ==
    /\ editor \in openDocuments
    /\ transparentDecoration' =
           removeTransparency(transparentDecoration, orphanDecorations).transparentDecoration
    /\ orphanDecorations' =
           removeTransparency(transparentDecoration, orphanDecorations).orphanDecorations
    /\ documentStates' =
           [getDocumentState(documentStates, editor)
                EXCEPT ![editor].isTransparent = FALSE]
    /\ lastOp' = Observation("resetTransparency", editor, "unread", FALSE, NoResult, Null)
    /\ UNCHANGED <<documents, errorPatterns, now, ticks, cache, debounceTimers,
                   timeouts, nextTimer, invalidated, openDocuments,
                   hintDecorations, delays, detection>>

\* The settings goErrorCollapse.autoCollapseOnOpen, autoCollapseOnSave and
\* showCollapsedHint, at their defaults.
autoCollapseOnOpen == TRUE

autoCollapseOnSave == TRUE

showCollapsedHint == TRUE

\* The delay of autoCollapseOnOpen before it collapses, in ms
OpenDelay == 100

\* The delay of autoCollapseOnSave before it collapses again, in ms
SaveDelay == 300

\* The uris of the first and the tenth document the editor opens without
\* a file (File > New), the language mode of both set to Go.
UntitledOne == "untitled:Untitled-1"

UntitledTen == "untitled:Untitled-10"

\* document.uri.toString(), character by character.
UriText(uri) ==
    CASE uri = UntitledOne ->
             <<"u", "n", "t", "i", "t", "l", "e", "d", ":", "U", "n", "t", "i",
               "t", "l", "e", "d", "-", "1">>
      [] uri = UntitledTen ->
             <<"u", "n", "t", "i", "t", "l", "e", "d", ":", "U", "n", "t", "i",
               "t", "l", "e", "d", "-", "1", "0">>
      [] OTHER ->
             <<"f", "i", "l", "e", ":", "/", "/", "/">>
                 \o (IF uri = "file:///a.go" THEN <<"a">> ELSE <<"b">>)
                 \o <<".", "g", "o">>

\* A number of one digit as a template literal writes it.
DigitText(n) ==
    <<CASE n = 0 -> "0" [] n = 1 -> "1" [] n = 2 -> "2" [] n = 3 -> "3"
        [] n = 4 -> "4" [] n = 5 -> "5" [] n = 6 -> "6" [] n = 7 -> "7"
        [] n = 8 -> "8" [] OTHER -> "9">>

\* The key of a hint in hintDecorations: `${uri}:${block.startLine}`.
HintKey(hint) == UriText(hint.uri) \o <<":">> \o DigitText(hint.startLine)

\* String.prototype.startsWith
StartsWith(s, prefix) ==
    Len(prefix) <= Len(s) /\ SubSeq(s, 1, Len(prefix)) = prefix

\* DecorationManager.clearHints: the hints left, those whose key starts
\* with the uri being disposed and deleted.
clearHints(hints, uri) == {h \in hints : ~StartsWith(HintKey(h), UriText(uri))}

\* DecorationManager.applyCollapsedHints: the hints of the document are
\* cleared and one hint is made for every block.
applyCollapsedHints(hints, uri, blocks) ==
    IF ~showCollapsedHint THEN hints
    ELSE clearHints(hints, uri)
             \cup {[uri |-> uri, startLine |-> blocks[k].startLine] :
                      k \in 1..Len(blocks)}

\* extension.ts collapseAllErrorBlocksSilent, blocks being what
\* detectErrorBlocks returned: the collapse states and the hints it leaves.
\* The editor folds the blocks; every document is a Go document.
collapseAllErrorBlocksSilent(states, hints, uri, blocks) ==
    IF Len(blocks) = 0
    THEN [documentStates |-> states, hintDecorations |-> hints]
    ELSE [documentStates |->
              [getDocumentState(states, uri) EXCEPT ![uri].isCollapsed = TRUE],
          hintDecorations |-> applyCollapsedHints(hints, uri, blocks)]

\* extension.ts expandAllErrorBlocksSilent, blocks being what
\* detectErrorBlocks returned.
expandAllErrorBlocksSilent(states, hints, uri, blocks) ==
    IF Len(blocks) = 0
    THEN [documentStates |-> states, hintDecorations |-> hints]
    ELSE [documentStates |->
              [getDocumentState(states, uri) EXCEPT ![uri].isCollapsed = FALSE],
          hintDecorations |-> clearHints(hints, uri)]

\* The command goErrorCollapse.toggle on the active editor
\* (toggleErrorBlocks), the fold commands it awaits having run.
Toggle(editor) ==
    /\ editor \in openDocuments
    /\ \E r \in {detectErrorBlocks(editor, errorPatterns)} :
         \E states \in {getDocumentState(documentStates, editor)} :
           \E after \in
               {IF states[editor].isCollapsed
                THEN expandAllErrorBlocksSilent(states, hintDecorations, editor,
                                                r.blocks)
                ELSE collapseAllErrorBlocksSilent(states, hintDecorations, editor,
                                                  r.blocks)} :
             /\ cache' = r.cache
             /\ documentStates' = after.documentStates
             /\ hintDecorations' = after.hintDecorations
             /\ invalidated' = invalidated \ {editor}
             /\ lastOp' = Observation("toggle", editor, EntryFound(editor), TRUE, r, Null)
    /\ UNCHANGED <<documents, errorPatterns, now, ticks, debounceTimers,
                   timeouts, nextTimer, openDocuments, transparentDecoration,
                   orphanDecorations, delays, detection>>

\* The editor of a document becomes the active one
\* (onDidChangeActiveTextEditor): autoCollapseOnOpen starts its delay. At
\* most maxDelays handlers wait at a time.
OpenEditor(editor, maxDelays) ==
    /\ editor \in openDocuments
    /\ autoCollapseOnOpen
    /\ Cardinality(delays) < maxDelays
    /\ delays' = delays \cup {[kind |-> "open", uri |-> editor,
                               due |-> now + OpenDelay, state |-> Null]}
    /\ lastOp' = Observation("openEditor", editor, "unread", FALSE, NoResult, Null)
    /\ UNCHANGED <<documents, errorPatterns, now, ticks, cache, debounceTimers,
                   timeouts, nextTimer, documentStates, invalidated,
                   openDocuments, transparentDecoration, orphanDecorations,
                   hintDecorations, detection>>

\* The delay of autoCollapseOnOpen is over: collapseAllErrorBlocks runs on
\* the editor the handler was given, the document open or not.
ResumeOpen(d) ==
    /\ d \in delays
    /\ d.kind = "open"
    /\ now >= d.due
    /\ delays' = delays \ {d}
    /\ \E r \in {detectErrorBlocks(d.uri, errorPatterns)} :
         \E after \in {collapseAllErrorBlocksSilent(documentStates, hintDecorations,
                                                    d.uri, r.blocks)} :
           /\ cache' = r.cache
           /\ documentStates' = after.documentStates
           /\ hintDecorations' = after.hintDecorations
           /\ invalidated' = invalidated \ {d.uri}
           /\ lastOp' = Observation("resumeOpen", d.uri, EntryFound(d.uri), TRUE, r, Null)
    /\ UNCHANGED <<documents, errorPatterns, now, ticks, debounceTimers,
                   timeouts, nextTimer, openDocuments, transparentDecoration,
                   orphanDecorations, detection>>

\* The document of the active editor is saved (onDidSaveTextDocument):
\* autoCollapseOnSave takes the collapse state of the document, invalidates
\* its cache entry and starts its delay.
SaveDocument(editor, maxDelays) ==
    /\ editor \in openDocuments
    /\ autoCollapseOnSave
    /\ Cardinality(delays) < maxDelays
    /\ documentStates' = getDocumentState(documentStates, editor)
    /\ cache' = invalidateCache(editor)
    /\ invalidated' = invalidated \cup {editor}
    /\ delays' = delays \cup {[kind |-> "save", uri |-> editor,
                               due |-> now + SaveDelay, state |-> Null]}
    /\ lastOp' = Observation("saveDocument", editor, EntryFound(editor), FALSE, NoResult, Null)
    /\ UNCHANGED <<documents, errorPatterns, now, ticks, debounceTimers,
                   timeouts, nextTimer, openDocuments, transparentDecoration,
                   orphanDecorations, hintDecorations, detection>>

\* The delay of autoCollapseOnSave is over: the blocks are collapsed again
\* when the state taken before the delay is collapsed, and the transparency
\* applied again when it is transparent. The state is the one of
\* documentStates unless the document was closed during the delay, when it
\* is the state that was deleted.
ResumeSave(d) ==
    /\ d \in delays
    /\ d.kind = "save"
    /\ now >= d.due
    /\ delays' = delays \ {d}
    /\ \E state \in {IF d.state # Null THEN d.state[1] ELSE documentStates[d.uri]} :
         \E r \in {detectErrorBlocks(d.uri, errorPatterns)} :
           \E after \in
               {IF state.isCollapsed
                THEN collapseAllErrorBlocksSilent(documentStates, hintDecorations,
                                                  d.uri, r.blocks)
                ELSE [documentStates |-> documentStates,
                      hintDecorations |-> hintDecorations]} :
             \E shown \in
                 {IF state.isTransparent
                  THEN applyTransparency(transparentDecoration, orphanDecorations,
                                         d.uri, r.blocks)
                  ELSE SameDecorations} :
               \E detected \in {state.isCollapsed \/ state.isTransparent} :
                 /\ cache' = IF detected THEN r.cache ELSE cache
                 /\ documentStates' = after.documentStates
                 /\ hintDecorations' = after.hintDecorations
                 /\ transparentDecoration' = shown.transparentDecoration
                 /\ orphanDecorations' = shown.orphanDecorations
                 /\ invalidated' = IF detected THEN invalidated \ {d.uri}
                                   ELSE invalidated
                 /\ lastOp' = Observation("resumeSave", d.uri,
                                          IF detected THEN EntryFound(d.uri)
                                          ELSE "unread",
                                          detected, r, Null)
    /\ UNCHANGED <<documents, errorPatterns, now, ticks, debounceTimers,
                   timeouts, nextTimer, openDocuments, detection>>

\* A document is closed (onDidCloseTextDocument): its collapse state is
\* deleted, its hints are cleared and its cache entry is invalidated. Its
\* editor is gone, and with it the orphan decorations it showed. A handler
\* of autoCollapseOnSave that waits keeps the state it took.
CloseDocument(uri) ==
    /\ uri \in openDocuments
    /\ openDocuments' = openDocuments \ {uri}
    /\ documentStates' = MapDelete(documentStates, uri)
    /\ hintDecorations' = clearHints(hintDecorations, uri)
    /\ cache' = invalidateCache(uri)
    /\ invalidated' = invalidated \cup {uri}
    /\ orphanDecorations' = {o \in orphanDecorations : o.editor # uri}
    /\ delays' = {IF d.kind = "save" /\ d.uri = uri /\ d.state = Null
                     /\ uri \in DOMAIN documentStates
                  THEN [d EXCEPT !.state = <<documentStates[uri]>>]
                  ELSE d : d \in delays}
    /\ lastOp' = Observation("closeDocument", uri, EntryFound(uri), FALSE, NoResult, Null)
    /\ UNCHANGED <<documents, errorPatterns, now, ticks, debounceTimers,
                   timeouts, nextTimer, transparentDecoration, detection>>

\* The detector and its callers: the documents change, time passes, the
\* cache and the debounce timers are used; the configuration stays.
Next ==
    \/ \E step \in TimeSteps : Tick(step, MaxTicks)
    \/ \E uri \in Uris, lines \in Texts : Edit(uri, lines)
    \/ \E uri \in Uris : DetectErrorBlocks(uri)
    \/ \E uri \in Uris : DetectDebounced(uri, MaxCalls)
    \/ \E t \in timeouts, again \in BOOLEAN : Fire(t, again, MaxCalls)
    \/ \E uri \in Uris : InvalidateCache(uri)
    \/ ClearAllCaches

Spec == Init /\ [][Next]_vars

\* The same, with bursts of debounced calls: more calls, over more time.
NextDebounce ==
    \/ \E step \in TimeSteps : Tick(step, MaxBurstTicks)
    \/ \E uri \in Uris, lines \in Texts : Edit(uri, lines)
    \/ \E uri \in Uris : DetectErrorBlocks(uri)
    \/ \E uri \in Uris : DetectDebounced(uri, MaxBurstCalls)
    \/ \E t \in timeouts, again \in BOOLEAN : Fire(t, again, MaxBurstCalls)
    \/ \E uri \in Uris : InvalidateCache(uri)
    \/ ClearAllCaches

SpecDebounce == Init /\ [][NextDebounce]_vars

\* The operations on one document next to the cache entry and the timer of
\* another: detection, debounced detection and its firing, invalidation.
NextFrame ==
    \/ \E step \in TimeSteps : Tick(step, MaxBurstTicks)
    \/ \E uri \in Uris : DetectErrorBlocks(uri)
    \/ \E uri \in Uris : DetectDebounced(uri, MaxBurstCalls)
    \/ \E t \in timeouts, again \in BOOLEAN : Fire(t, again, MaxBurstCalls)
    \/ \E uri \in Uris : InvalidateCache(uri)

SpecFrame == Init /\ [][NextFrame]_vars

\* The cache under configuration changes and the transparency commands, no
\* debounced detection running.
NextConfig ==
    \/ \E step \in TimeSteps : Tick(step, MaxTicks)
    \/ \E uri \in Uris, lines \in Texts : Edit(uri, lines)
    \/ \E uri \in Uris : DetectErrorBlocks(uri)
    \/ \E uri \in Uris : InvalidateCache(uri)
    \/ \E patterns \in Configs, editor \in Editors \cup {NoEditor} :
           ChangeConfig(patterns, editor)
    \/ \E editor \in Editors : MakeTransparent(editor)
    \/ \E editor \in Editors : ResetTransparency(editor)

SpecConfig == Init /\ [][NextConfig]_vars

----------------------------------------------------------------------------
(* The debouncer.                                                          *)

\* The timeouts pending for a document.
PendingFor(uri) == {t \in timeouts : t.uri = uri}

\* C1: in every reachable state at most one debounce timeout is pending for
\* each document, a callback that calls detectDebounced for the document
\* it was called for included.
C1_AtMostOnePendingTimer ==
    \A uri \in Uris : Cardinality(PendingFor(uri)) <= 1

\* C2: of the detectDebounced calls of a burst for one document, each made
\* before the delay of the one before has elapsed, only the last one leads
\* to a scan: no timeout of a superseded call runs performDetection, and
\* the blocks the timeout of the last call delivers are those of a scan of
\* the document the call supplied.
C2_BurstScansOnce ==
    lastOp.op = "fire" =>
        IF lastOp.timer[1].superseded
        THEN ~lastOp.scanned
        ELSE lastOp.blocks = Scanner(lastOp.doc, errorPatterns)

\* C3: the timeout of a detectDebounced call superseded by a later call for
\* the same document within the delay never fires: its callback is not
\* invoked and nothing is detected or cached on its behalf.
C3_SupersededNeverFires ==
    lastOp.op = "fire" => ~lastOp.timer[1].superseded

\* C8: after clearAllCaches or dispose the cache is empty and no debounce
\* timeout is pending, and no timeout set before the dispose fires after it.
C8_DisposeCancelsAll ==
    /\ lastOp.op = "clearAllCaches" => DOMAIN cache = {} /\ timeouts = {}
    /\ lastOp.op = "fire" => ~lastOp.timer[1].disposed

----------------------------------------------------------------------------
(* The cache.                                                              *)

\* C4: a detectErrorBlocks call that finds an entry of the document's
\* version, younger than 5000 ms, does not run performDetection and returns
\* the blocks stored in the entry.
C4_ValidEntryIsServed ==
    (lastOp.detected /\ lastOp.entry = "valid") =>
        /\ ~lastOp.scanned
        /\ lastOp.blocks = lastOp.stored

C4_Witness ==
    /\ lastOp.op = "detectErrorBlocks"
    /\ lastOp.entry = "valid"
    /\ now - cache[lastOp.doc].timestamp = DEBOUNCE_DELAY
    /\ lastOp.blocks # << >>
    /\ lastOp.blocks = lastOp.stored

\* C5: a detectErrorBlocks call that finds no entry, an entry of another
\* version, or an entry 5000 ms old or older runs performDetection and
\* leaves for the document the entry of the current version, the blocks
\* just scanned and the current time.
C5_OtherEntryIsReplaced ==
    (lastOp.detected /\ lastOp.entry \in {"none", "otherVersion", "expired"}) =>
        /\ lastOp.scanned
        /\ lastOp.blocks = Scanner(lastOp.doc, errorPatterns)
        /\ lastOp.doc \in DOMAIN cache
        /\ cache[lastOp.doc] = [version |-> documents[lastOp.doc].version,
                                blocks |-> lastOp.blocks,
                                timestamp |-> now]

C5_Witness ==
    /\ lastOp.op = "detectErrorBlocks"
    /\ lastOp.entry = "expired"
    /\ lastOp.scanned
    /\ cache[lastOp.doc].timestamp = now

\* C6: with the configuration fixed, whatever edits, detections,
\* invalidations and timer firings came before, the blocks a detection
\* returns are those performDetection yields on the current text of the
\* document.
C6_ReturnedBlocksAreCurrent ==
    lastOp.detected => lastOp.blocks = Scanner(lastOp.doc, errorPatterns)

C6_Witness ==
    /\ lastOp.detected
    /\ lastOp.entry = "valid"
    /\ ~lastOp.scanned
    /\ documents[lastOp.doc].version > 1
    /\ documents[lastOp.doc].lines = OkText
    /\ lastOp.blocks = << >>

\* C7: after invalidateCache for a document the cache holds no entry for
\* it, and the next detectErrorBlocks call for it runs performDetection,
\* also when the entry removed was of the current version and younger than
\* 5000 ms.
C7_InvalidateForcesScan ==
    /\ lastOp.op = "invalidateCache" => lastOp.doc \notin DOMAIN cache
    /\ lastOp.after # "other" => lastOp.scanned

C7_Witness ==
    /\ lastOp.op = "detectErrorBlocks"
    /\ lastOp.after = "invalidateValid"
    /\ lastOp.scanned

\* The operations of the detector on one document.
DocumentOps == {"detectErrorBlocks", "detectDebounced", "fire", "invalidateCache"}

\* C9: detectErrorBlocks, detectDebounced, the firing of a debounce timeout
\* and invalidateCache for one document leave the cache entry, the
\* registered timer and the pending timeouts of every other document as
\* they were.
C9_OtherDocumentsUntouched ==
    [][lastOp'.op \in DocumentOps =>
          \A other \in Uris \ {lastOp'.doc} :
              /\ MapGet(cache', other) = MapGet(cache, other)
              /\ MapGet(debounceTimers', other) = MapGet(debounceTimers, other)
              /\ {t \in timeouts' : t.uri = other} = PendingFor(other)]_vars

C9_Witness ==
    /\ lastOp.op = "fire"
    /\ \E other \in Uris \ {lastOp.doc} :
          /\ other \in DOMAIN cache
          /\ other \in DOMAIN debounceTimers
          /\ PendingFor(other) # {}

----------------------------------------------------------------------------
(* The cache under configuration changes.                                  *)

\* A detection that finds a valid entry returns the blocks of the entry and
\* leaves the cache as it was.
ValidEntryServed ==
    (lastOp'.detected /\ lastOp'.entry = "valid") =>
        /\ lastOp'.blocks = cache[lastOp'.doc].blocks
        /\ cache' = cache

\* C10 as stated: a change of the configured fragments removes or alters no
\* cache entry, and a detection for a document of unchanged version within
\* the TTL still returns the blocks of the entry.
C10_ConfigChangeAltersNoEntry ==
    [][/\ lastOp'.op = "changeConfig" =>
              \A uri \in DOMAIN cache :
                  uri \in DOMAIN cache' /\ cache'[uri] = cache[uri]
       /\ ValidEntryServed]_vars

\* C10, amended: a change of the configured fragments removes no cache
\* entry and alters none that is valid (of the document's version and
\* younger than the TTL); the handler replaces, by a scan under the new
\* fragments, only an entry of the active editor's document that is not
\* valid, and only while the document is transparent. A detection that
\* finds a valid entry still returns its blocks, and the first detection
\* after invalidateCache returns the blocks of a scan under the fragments
\* now configured.
C10_ConfigChangeKeepsValidEntries ==
    [][/\ lastOp'.op = "changeConfig" =>
              \A uri \in DOMAIN cache :
                  /\ uri \in DOMAIN cache'
                  /\ (EntryFound(uri) = "valid" \/ uri # lastOp'.doc
                      \/ ~lastOp'.detected) => cache'[uri] = cache[uri]
       /\ ValidEntryServed
       /\ lastOp'.after # "other" =>
              lastOp'.blocks = Scanner(lastOp'.doc, errorPatterns')]_vars

\* A detection returns the blocks computed under the old fragments, the
\* fragments changed since: a scan under the new ones yields other blocks.
C10_Witness ==
    /\ lastOp.op = "detectErrorBlocks"
    /\ lastOp.entry = "valid"
    /\ lastOp.blocks = lastOp.stored
    /\ lastOp.blocks # Scanner(lastOp.doc, errorPatterns)

----------------------------------------------------------------------------
(* The scanner on bounded inputs: the document of the active editor holds  *)
(* any text of a bounded set, and is scanned.                              *)

\* if err != nil {
HeaderLine ==
    <<"i", "f", " ", "e", "r", "r", " ", "!", "=", " ", "n", "i", "l", " ",
      "{">>

\* \tif err != nil {
IndentedHeaderLine ==
    <<"\t", "i", "f", " ", "e", "r", "r", " ", "!", "=", " ", "n", "i", "l",
      " ", "{">>

\* \treturn err
ReturnLine ==
    <<"\t", "r", "e", "t", "u", "r", "n", " ", "e", "r", "r">>

\* \treturn T{
ReturnOpenLine ==
    <<"\t", "r", "e", "t", "u", "r", "n", " ", "T", "{">>

\* \tlog.Print(x) }
LogCloseLine ==
    <<"\t", "l", "o", "g", ".", "P", "r", "i", "n", "t", "(", "x",
      ")", " ", "}">>

\* }
CloserLine ==
    <<"}">>

\* \t}
IndentedCloserLine ==
    <<"\t", "}">>

\* }}
DoubleCloserLine ==
    <<"}", "}">>

\* } else {
CloserElseLine ==
    <<"}", " ", "e", "l", "s", "e", " ", "{">>

\* else {
ElseLine ==
    <<"e", "l", "s", "e", " ", "{">>

\* The lines that make the structure of a text: headers, a body line, a
\* body line that opens a brace and one that closes a brace, closers and
\* else lines.
StructureLines ==
    {HeaderLine, IndentedHeaderLine, ReturnLine, ReturnOpenLine, LogCloseLine,
     CloserLine, IndentedCloserLine, DoubleCloserLine, CloserElseLine, ElseLine}

\* The number of structure lines of a text.
MaxLines == 3

\* The sequences of at most n elements of S.
RECURSIVE SeqsUpTo(_, _)
SeqsUpTo(S, n) ==
    IF n = 0 THEN {<< >>}
    ELSE LET shorter == SeqsUpTo(S, n - 1)
         IN  shorter \cup {Append(x, y) : x \in {z \in shorter : Len(z) = n - 1},
                                          y \in S}

\* A guard block the scanner folds: if err != nil { return err }.
SimpleBlock == <<HeaderLine, ReturnLine, CloserLine>>

\* A guard block with an else branch on the line of its closing brace:
\* if err != nil { return err } else { doSomething() }, on five lines.
ElseExample ==
    <<HeaderLine,
      <<" ", " ", " ", " ", "r", "e", "t", "u", "r", "n", " ", "e", "r", "r">>,
      CloserElseLine,
      <<" ", " ", " ", " ", "d", "o", "S", "o", "m", "e", "t", "h", "i", "n", "g",
        "(", ")">>,
      CloserLine>>

\* The lines of a document without text: ''.split('\n') is one empty line.
EmptyText == << << >> >>

\* The texts built of at most MaxLines structure lines, alone, after a
\* header or after a guard block, the guard block with an else branch and
\* the document without text.
StructureTexts ==
    (SeqsUpTo(StructureLines, MaxLines) \ {<< >>})
        \cup {beginning \o rest : beginning \in {<<HeaderLine>>, SimpleBlock},
                                  rest \in SeqsUpTo(StructureLines, MaxLines)}
        \cup {ElseExample, EmptyText}

\* The detector as constructed, the documents holding a text of texts and
\* the fragments configured being one of configs.
ScanInit(texts, configs) ==
    /\ \E text \in texts : documents = [u \in Uris |-> [version |-> 1, lines |-> text]]
    /\ errorPatterns \in configs
    /\ now = 0
    /\ ticks = 0
    /\ cache = EmptyMap
    /\ debounceTimers = EmptyMap
    /\ timeouts = {}
    /\ nextTimer = 1
    /\ documentStates = EmptyMap
    /\ invalidated = {}
    /\ lastOp = [op |-> "init", doc |-> NoEditor, entry |-> "unread",
                 detected |-> FALSE, stored |-> << >>, after |-> "other",
                 scanned |-> FALSE, blocks |-> << >>, timer |-> Null]
    /\ ExtensionInit

\* A caller calls detectErrorBlocks on a document of any text: the scan is
\* computed from the lines of the document.
ScanDocument(uri) ==
    LET r == detectErrorBlocksWith(uri, performDetection(documents[uri].lines,
                                                        errorPatterns))
    IN  /\ cache' = r.cache
        /\ invalidated' = invalidated \ {uri}
        /\ lastOp' = Observation("detectErrorBlocks", uri, EntryFound(uri), TRUE, r, Null)
        /\ UNCHANGED <<documents, errorPatterns, now, ticks, debounceTimers,
                       timeouts, nextTimer, documentStates,
                       extensionVars>>

\* The document of the active editor is scanned (and the result cached).
NextScan == \E uri \in Editors : ScanDocument(uri)

\* The scanner on the texts built of structure lines, default fragments.
SpecScan == ScanInit(StructureTexts, {DefaultPatterns}) /\ [][NextScan]_vars

\* The lines of the document the last operation was about.
ScannedLines == documents[lastOp.doc].lines

\* The blocks returned by the detectErrorBlocks call just made.
ReturnedBlocks == lastOp.blocks

\* A detectErrorBlocks call has just run performDetection.
ScanReturned == lastOp.op = "detectErrorBlocks" /\ lastOp.scanned

----------------------------------------------------------------------------
(* Claims on the order and the extent of the blocks of one scan.           *)

\* C11: the blocks returned by one scan are in strictly ascending startLine
\* order and their line ranges are pairwise disjoint: each block starts
\* after the block before it has ended.
C11_BlocksAscendingDisjoint ==
    ScanReturned =>
        \A k, m \in 1..Len(ReturnedBlocks) :
            k < m => /\ ReturnedBlocks[k].startLine < ReturnedBlocks[m].startLine
                     /\ ReturnedBlocks[k].endLine < ReturnedBlocks[m].startLine

\* A scan has returned two blocks.
C11_Witness == ScanReturned /\ Len(ReturnedBlocks) >= 2

\* C12: every block has startLine < bodyStartLine <= endLine, with
\* bodyStartLine = startLine + 1 and endLine less than the number of lines
\* of the text, and its fullRange spans exactly the lines startLine to
\* endLine: from character 0 of the header to the end of the closing line.
C12_BlockExtent ==
    ScanReturned =>
        \A k \in 1..Len(ReturnedBlocks) :
            LET b == ReturnedBlocks[k]
            IN  /\ b.startLine < b.bodyStartLine
                /\ b.bodyStartLine <= b.endLine
                /\ b.bodyStartLine = b.startLine + 1
                /\ b.startLine >= 0
                /\ b.endLine < Len(ScannedLines)
                /\ b.fullRange.startLine = b.startLine
                /\ b.fullRange.startCharacter = 0
                /\ b.fullRange.endLine = b.endLine
                /\ b.fullRange.endCharacter = Len(ScannedLines[b.endLine + 1])

\* A scan has returned a block that starts after the first line of the text
\* and ends at its last line.
C12_Witness ==
    /\ ScanReturned
    /\ \E k \in 1..Len(ReturnedBlocks) :
           /\ ReturnedBlocks[k].startLine > 0
           /\ ReturnedBlocks[k].endLine = Len(ScannedLines) - 1

----------------------------------------------------------------------------
(* Claims on the closing line of a guard block.                            *)

\* The braces a line opens less the braces it closes.
NetBraces(line) == CountChar(line, "{") - CountChar(line, "}")

\* The brace depth before line j (counted from 0) of lines, the header at
\* line h having opened the first brace.
RECURSIVE DepthBefore(_, _, _)
DepthBefore(lines, h, j) ==
    IF j <= h + 1 THEN 1 ELSE DepthBefore(lines, h, j - 1) + NetBraces(lines[j])

\* The line begins with white space and a closing brace.
BeginsWithCloser(line) == MatchLit(line, SkipSpaces(line, 1), <<"}">>)

\* The positions of line of a closing brace that brings the brace depth,
\* depth before the line, to 0.
ClosePositions(line, depth) ==
    {i \in 1..Len(line) :
        /\ line[i] = "}"
        /\ depth + NetBraces(SubSeq(line, 1, i)) = 0}

\* The lines after the header at line h that hold the brace that closes
\* the header's brace.
GuardClosers(lines, h) ==
    {j \in (h + 1)..(Len(lines) - 1) :
        ClosePositions(lines[j + 1], DepthBefore(lines, h, j)) # {}}

\* The word else follows, on the line, the brace at position i.
ElseAfter(line, i) ==
    MatchLit(line, SkipSpaces(line, i + 1), <<"e", "l", "s", "e">>)

\* The line is a bare else {.
BareElse(line) ==
    /\ MatchLit(Trim(line), 1, <<"e", "l", "s", "e">>)
    /\ MatchLit(Trim(line), SkipSpaces(Trim(line), 5), <<"{">>)

\* The header at line h has a closing brace, and an else follows it on its
\* line or else { begins the next line.
ClosedWithElse(lines, h) ==
    /\ GuardClosers(lines, h) # {}
    /\ LET c == SetMin(GuardClosers(lines, h))
           i == SetMin(ClosePositions(lines[c + 1], DepthBefore(lines, h, c)))
       IN  \/ ElseAfter(lines[c + 1], i)
           \/ c + 1 < Len(lines) /\ BareElse(lines[c + 2])

\* The lines of the text scanned that are headers.
HeadersOf(lines) ==
    {h \in 0..(Len(lines) - 1) : ifErrMatch(lines[h + 1], errorPatterns) # Null}

\* C13: no block is returned for a guard block whose closing brace is
\* followed by else on the same line or by else { on the next line; the
\* five-line example with } else { yields no block at all.
C13_NoBlockWithElse ==
    ScanReturned =>
        /\ \A h \in HeadersOf(ScannedLines) :
               ClosedWithElse(ScannedLines, h) =>
                   \A k \in 1..Len(ReturnedBlocks) : ReturnedBlocks[k].startLine # h
        /\ ScannedLines = ElseExample => ReturnedBlocks = << >>

\* A guard block with a simple body, closed at the header's indentation and
\* followed by else { on the next line, has been scanned.
C13_Witness ==
    /\ ScanReturned
    /\ ScannedLines = <<HeaderLine, ReturnLine, CloserLine, ElseLine>>
    /\ ClosedWithElse(ScannedLines, 0)

\* The brace depth after line j of lines, the header at line h having
\* opened the first brace.
DepthAfter(lines, h, j) == DepthBefore(lines, h, j + 1)

\* The white space a line begins with.
LeadingSpace(line) == SubSeq(line, 1, SkipSpaces(line, 1) - 1)

\* Line j begins with the leading white space of the header at line h
\* followed by a closing brace.
ClosesAtHeaderIndentation(lines, h, j) ==
    /\ LeadingSpace(lines[j + 1]) = LeadingSpace(lines[h + 1])
    /\ BeginsWithCloser(lines[j + 1])

\* The lines after the header at line h at the end of which the brace
\* depth is 0.
ZeroDepthLines(lines, h) ==
    {j \in (h + 1)..(Len(lines) - 1) : DepthAfter(lines, h, j) = 0}

\* The lines after the header at line h at the end of which the brace
\* depth is 0 or less.
ClosedDepthLines(lines, h) ==
    {j \in (h + 1)..(Len(lines) - 1) : DepthAfter(lines, h, j) <= 0}

\* C14 as stated: the endLine of every block is the first line after the
\* header at which the brace depth reaches 0, and that line begins with the
\* header's leading white space followed by a closing brace; a header whose
\* depth reaches 0 first on a line of another indentation has no block.
C14_ClosesAtDepthZero ==
    ScanReturned =>
        /\ \A k \in 1..Len(ReturnedBlocks) :
               LET b == ReturnedBlocks[k]
                   zero == ZeroDepthLines(ScannedLines, b.startLine)
               IN  /\ zero # {}
                   /\ b.endLine = SetMin(zero)
                   /\ ClosesAtHeaderIndentation(ScannedLines, b.startLine, b.endLine)
        /\ \A h \in HeadersOf(ScannedLines) :
               LET zero == ZeroDepthLines(ScannedLines, h)
               IN  (zero # {} /\ ~ClosesAtHeaderIndentation(ScannedLines, h, SetMin(zero)))
                       => \A k \in 1..Len(ReturnedBlocks) : ReturnedBlocks[k].startLine # h

\* C14, amended: the endLine of every block is the first line after the
\* header at which the brace depth reaches 0 or less, and that line begins
\* with the header's leading white space followed by a closing brace; a
\* header whose depth reaches 0 or less first on a line of another
\* indentation has no block.
C14_ClosesAtFirstClosedDepth ==
    ScanReturned =>
        /\ \A k \in 1..Len(ReturnedBlocks) :
               LET b == ReturnedBlocks[k]
                   closed == ClosedDepthLines(ScannedLines, b.startLine)
               IN  /\ closed # {}
                   /\ b.endLine = SetMin(closed)
                   /\ ClosesAtHeaderIndentation(ScannedLines, b.startLine, b.endLine)
        /\ \A h \in HeadersOf(ScannedLines) :
               LET closed == ClosedDepthLines(ScannedLines, h)
               IN  (closed # {} /\ ~ClosesAtHeaderIndentation(ScannedLines, h, SetMin(closed)))
                       => \A k \in 1..Len(ReturnedBlocks) : ReturnedBlocks[k].startLine # h

\* A scan has returned a block in whose body the brace depth was 2 and
\* whose closing line took the depth from 1 to less than 0.
C14_Witness ==
    /\ ScanReturned
    /\ \E k \in 1..Len(ReturnedBlocks) :
           LET b == ReturnedBlocks[k]
           IN  /\ DepthAfter(ScannedLines, b.startLine, b.endLine) < 0
               /\ \E j \in (b.startLine + 1)..(b.endLine - 1) :
                      DepthAfter(ScannedLines, b.startLine, j) = 2

----------------------------------------------------------------------------
(* Claims on the scan of texts that are not well formed.                   *)

\* C15: on every text (a document without text, unbalanced braces, a header
\* on the last line, closing braces without opening ones) the scan has a
\* value, which is a list of blocks that start at headers of the text and
\* is what a detectErrorBlocks call that scans returns; the list holds no
\* block for a header whose brace no later line closes.
C15_ScanIsTotal ==
    \A uri \in Editors :
        LET lines == documents[uri].lines
            blocks == performDetection(lines, errorPatterns)
        IN  /\ DOMAIN blocks = 1..Len(blocks)
            /\ \A k \in 1..Len(blocks) : blocks[k].startLine \in HeadersOf(lines)
            /\ \A h \in HeadersOf(lines) :
                   ClosedDepthLines(lines, h) = {} =>
                       \A k \in 1..Len(blocks) : blocks[k].startLine # h
            /\ (ScanReturned /\ lastOp.doc = uri) => ReturnedBlocks = blocks

\* A text that begins with a guard block and ends with a header that no
\* line closes has been scanned, and the scan returned the guard block.
C15_Witness ==
    /\ ScanReturned
    /\ Len(ScannedLines) - 1 \in HeadersOf(ScannedLines)
    /\ \E h \in HeadersOf(ScannedLines) :
           h # Len(ScannedLines) - 1 /\ ClosedDepthLines(ScannedLines, h) = {}
    /\ Len(ReturnedBlocks) = 1

----------------------------------------------------------------------------
(* The scanner on guard blocks whose header names any word of a bounded    *)
(* set, under the default fragments and under an empty fragment list.      *)

\* someErr
SomeErr == <<"s", "o", "m", "e", "E", "r", "r">>

\* errWrapped
ErrWrapped ==
    <<"e", "r", "r", "W", "r", "a", "p", "p", "e", "d">>

\* The letters of the words a header names.
WordLetters == {"e", "r", "o", "E", "s"}

\* The length of the words built of WordLetters.
MaxWordLength == 3

\* The words a header names: the words of at most MaxWordLength letters,
\* the empty word included, and two longer ones.
Words == SeqsUpTo(WordLetters, MaxWordLength) \cup {SomeErr, ErrWrapped}

\* The guard block if <word> != nil { return err }, on three lines.
GuardOn(word) ==
    <<<<"i", "f", " ">> \o word \o <<" ", "!", "=", " ", "n", "i", "l", " ", "{">>,
      ReturnLine, CloserLine>>

\* The texts whose header names a word of Words.
HeaderTexts == {GuardOn(word) : word \in Words}

\* A user setting of goErrorCollapse.errorPatterns: [].
NoPatterns == << >>

\* The scanner on the guard blocks of HeaderTexts, the fragments being the
\* default ones or none.
SpecHeader == ScanInit(HeaderTexts, {DefaultPatterns, NoPatterns}) /\ [][NextScan]_vars

\* The word contains one of the fragments.
ContainsFragment(word, patterns) ==
    \E k \in 1..Len(patterns) : Contains(word, patterns[k])

\* C16: with the default fragments, a guard block whose header names a word
\* that contains a fragment is recognized, and so are the guard blocks on
\* someErr and on errWrapped: the scan returns one block, the guard block.
C16_FragmentWordsRecognized ==
    (ScanReturned /\ errorPatterns = DefaultPatterns) =>
        \A word \in Words :
            (/\ ScannedLines = GuardOn(word)
             /\ \/ ContainsFragment(word, DefaultPatterns)
                \/ word \in {SomeErr, ErrWrapped})
                => /\ Len(ReturnedBlocks) = 1
                   /\ ReturnedBlocks[1].startLine = 0
                   /\ ReturnedBlocks[1].endLine = 2

\* C17: with an empty fragment list no line of the text is a header and
\* the scan returns no block.
C17_NoFragmentsNoBlocks ==
    (ScanReturned /\ errorPatterns = NoPatterns) =>
        /\ \A k \in 1..Len(ScannedLines) : ifErrMatch(ScannedLines[k], NoPatterns) = Null
        /\ ReturnedBlocks = << >>

----------------------------------------------------------------------------
(* The scanner on guard blocks whose body holds any lines of a bounded     *)
(* set, between a header and a closing brace of the header's indentation.  *)

\* \tif  err!=nil{
SpacedHeaderLine ==
    <<"\t", "i", "f", " ", " ", "e", "r", "r", "!", "=", "n", "i", "l", "{">>

\* four spaces, return err
ExampleReturnLine ==
    <<" ", " ", " ", " ", "r", "e", "t", "u", "r", "n", " ", "e", "r", "r">>

\* \treturn  nil,  err (two spaces after return and after the comma)
SpacedReturnLine ==
    <<"\t", "r", "e", "t", "u", "r", "n", " ", " ", "n", "i", "l", ",", " ",
      " ", "e", "r", "r">>

\* \tRETURN err
UpperReturnLine ==
    <<"\t", "R", "E", "T", "U", "R", "N", " ", "e", "r", "r">>

\* four spaces, log.Fatal(err)
ExampleFatalLine ==
    <<" ", " ", " ", " ", "l", "o", "g", ".", "F", "a", "t", "a", "l", "(",
      "e", "r", "r", ")">>

\* \tpanic(err)
PanicLine ==
    <<"\t", "p", "a", "n", "i", "c", "(", "e", "r", "r", ")">>

\* \tos.Exit(1)
ExitLine ==
    <<"\t", "o", "s", ".", "E", "x", "i", "t", "(", "1", ")">>

\* four spaces, cleanup()
CallLine ==
    <<" ", " ", " ", " ", "c", "l", "e", "a", "n", "u", "p", "(", ")">>

\* a line without characters
BlankLine == << >>

\* \t// handle
CommentLine ==
    <<"\t", "/", "/", " ", "h", "a", "n", "d", "l", "e">>

\* a return statement of 51 characters
LongReturnLine ==
    <<"\t", "r", "e", "t", "u", "r", "n", " ", "n", "i", "l", ",", " ", "e",
      "r", "r", "o", "r", "s", ".", "W", "r", "a", "p", "f", "(", "e", "r",
      "r", ",", " ", "c", "a", "n", "n", "o", "t", "O", "p", "e", "n", "C",
      "o", "n", "f", "i", "g", ",", " ", "p", "t", ")">>

\* a log.Fatal call of 50 characters
FiftyLine ==
    <<"\t", "l", "o", "g", ".", "F", "a", "t", "a", "l", "(", "c", "a", "n",
      "n", "o", "t", "R", "e", "a", "d", "T", "h", "e", "C", "o", "n", "f",
      "i", "g", "u", "r", "a", "t", "i", "o", "n", "F", "i", "l", "e", "A",
      "t", "A", "l", ",", " ", "e", "r", "r", ")">>

\* The lines of a body: statements of the shapes of validLinePatterns, a
\* call of another shape, a blank line and a comment.
BodyLines ==
    {ExampleReturnLine, SpacedReturnLine, UpperReturnLine, ExampleFatalLine,
     PanicLine, ExitLine, CallLine, BlankLine, CommentLine, LongReturnLine,
     FiftyLine}

\* The number of lines of a body.
MaxBodyLines == 3

\* The header and the closing line of a guard block: at the left margin, or
\* indented by a tab, the header's condition written without single spaces.
Frames ==
    {[header |-> HeaderLine, closer |-> CloserLine],
     [header |-> SpacedHeaderLine, closer |-> IndentedCloserLine]}

\* The texts made of a header, a body of at most MaxBodyLines lines and a
\* closing line.
BodyTexts ==
    {<<frame.header>> \o body \o <<frame.closer>> :
        frame \in Frames, body \in SeqsUpTo(BodyLines, MaxBodyLines)}

\* The scanner on the texts with any body, default fragments.
SpecBody == ScanInit(BodyTexts, {DefaultPatterns}) /\ [][NextScan]_vars

\* The lines of the body of block b of the text scanned, and those of them
\* that qualify: the lines that are neither blank nor a comment.
BodyOf(b) == SubSeq(ScannedLines, b.bodyStartLine + 1, b.endLine)

QualifyingLines(b) == SelectSeq(BodyOf(b), IsStatementLine)

\* s holds two white space characters in a row.
HasSpaceRun(s) == \E i \in 1..(Len(s) - 1) : IsSpace(s[i]) /\ IsSpace(s[i + 1])

\* s neither begins nor ends with white space.
IsTrimmed(s) == s = << >> \/ (~IsSpace(s[1]) /\ ~IsSpace(s[Len(s)]))

----------------------------------------------------------------------------
(* Claims on the text of a block.                                          *)

\* C18 as stated: the bodyStatement of every block has no leading or
\* trailing white space and no run of two or more white space characters,
\* the body having one, two or three qualifying lines.
C18_BodyStatementNormalized ==
    ScanReturned =>
        \A k \in 1..Len(ReturnedBlocks) :
            /\ IsTrimmed(ReturnedBlocks[k].bodyStatement)
            /\ ~HasSpaceRun(ReturnedBlocks[k].bodyStatement)

\* C18, amended: the bodyStatement of every block has no leading or
\* trailing white space; for a body of two or three qualifying lines it has
\* no run of two or more white space characters; for a body of one
\* qualifying line it is that line trimmed, inner white space as written.
C18_BodyStatementTrimmed ==
    ScanReturned =>
        \A k \in 1..Len(ReturnedBlocks) :
            LET b == ReturnedBlocks[k]
                qualifying == QualifyingLines(b)
            IN  /\ Len(qualifying) \in 1..3
                /\ IsTrimmed(b.bodyStatement)
                /\ Len(qualifying) >= 2 => ~HasSpaceRun(b.bodyStatement)
                /\ Len(qualifying) = 1 => b.bodyStatement = Trim(qualifying[1])

\* A scan has returned a block for a body of two or three qualifying lines,
\* one of which has a run of white space inside.
C18_Witness ==
    /\ ScanReturned
    /\ \E k \in 1..Len(ReturnedBlocks) :
           LET qualifying == QualifyingLines(ReturnedBlocks[k])
           IN  /\ Len(qualifying) >= 2
               /\ \E n \in 1..Len(qualifying) : HasSpaceRun(Trim(qualifying[n]))

\* The condition a header states: what stands between the word if and the
\* opening brace, without the white space around it.
ConditionOf(header) ==
    LET trimmed == Trim(header)
    IN  Trim(SubSeq(trimmed, 3, Len(trimmed) - 1))

\* The characters of s that are not white space.
NotSpace(c) == ~IsSpace(c)

WithoutSpaces(s) == SelectSeq(s, NotSpace)

\* The body shown for a bodyStatement: itself when it has at most 50
\* characters, else its first 50 characters and an ellipsis.
ShownBody(bodyStatement) ==
    IF Len(bodyStatement) <= 50 THEN bodyStatement
    ELSE SubSeq(bodyStatement, 1, 50) \o <<".", ".", ".">>

\* C19: the collapsedText of every block is if <condition> { <body> }, the
\* condition being the header's and <body> the bodyStatement when it has at
\* most 50 characters, else its first 50 characters followed by ...; the
\* bodyStatement itself is not truncated: it holds every character of the
\* qualifying lines of the body that is not white space.
C19_CollapsedTextShowsBody ==
    ScanReturned =>
        \A k \in 1..Len(ReturnedBlocks) :
            LET b == ReturnedBlocks[k]
            IN  /\ b.collapsedText =
                       <<"i", "f", " ">> \o ConditionOf(ScannedLines[b.startLine + 1])
                           \o <<" ", "{", " ">> \o ShownBody(b.bodyStatement)
                           \o <<" ", "}">>
                /\ WithoutSpaces(b.bodyStatement) =
                       WithoutSpaces(JoinWithSpace(QualifyingLines(b)))

\* A scan has returned a block whose bodyStatement has more than 50
\* characters, and so has its collapsedText after the opening brace.
C19_Witness ==
    /\ ScanReturned
    /\ \E k \in 1..Len(ReturnedBlocks) :
           /\ Len(ReturnedBlocks[k].bodyStatement) > 50
           /\ Len(ReturnedBlocks[k].collapsedText) > 50

----------------------------------------------------------------------------
(* Claims on the guard blocks that are folded.                             *)

\* s in lower case.
Lowered(s) == [i \in 1..Len(s) |-> ToLower(s[i])]

\* The line, trimmed and letter case ignored, begins as a return statement.
ReturnShape(line) ==
    LET l == Lowered(Trim(line))
    IN  /\ MatchLit(l, 1, <<"r", "e", "t", "u", "r", "n">>)
        /\ (Len(l) = 6 \/ ~IsWord(l[7]))

\* The line, trimmed and letter case ignored, begins as a call of a logging
\* function of log.
LoggingShape(line) ==
    LET l == Lowered(Trim(line))
    IN  /\ MatchLit(l, 1, <<"l", "o", "g", ".">>)
        /\ \E call \in LogCalls : MatchLit(l, 5, Lowered(call))

\* The line, trimmed and letter case ignored, begins as a call of panic.
PanicShape(line) ==
    LET l == Lowered(Trim(line))
    IN  /\ MatchLit(l, 1, <<"p", "a", "n", "i", "c">>)
        /\ MatchLit(l, SkipSpaces(l, 6), <<"(">>)

\* The line, trimmed and letter case ignored, begins as a call that exits.
ExitShape(line) ==
    \E call \in ExitCalls : MatchLit(Lowered(Trim(line)), 1, Lowered(call))

\* The line has one of the shapes a folded body is made of.
AllowedShape(line) ==
    ReturnShape(line) \/ LoggingShape(line) \/ PanicShape(line) \/ ExitShape(line)

\* The trimmed body, given its qualifying lines: the line trimmed, or the
\* lines trimmed and joined by single blanks.
TrimmedBody(qualifying) ==
    IF Len(qualifying) = 1 THEN Trim(qualifying[1])
    ELSE CollapseSpaces(JoinWithSpace([n \in 1..Len(qualifying) |-> Trim(qualifying[n])]))

\* return err
ReturnErr == <<"r", "e", "t", "u", "r", "n", " ", "e", "r", "r">>

\* log.Fatal(err)
LogFatalErr ==
    <<"l", "o", "g", ".", "F", "a", "t", "a", "l", "(", "e", "r", "r", ")">>

\* C20: a text made of a header, a body of one to three qualifying lines,
\* each of an allowed shape and at most one of them a return, and a closing
\* line at the header's indentation, the first to close the header's brace
\* and not followed by else, yields exactly one block: startLine is the
\* header's line, endLine the closing line's and bodyStatement the trimmed
\* body. if err != nil { return err } on three lines gives startLine 0,
\* endLine 2 and return err; with log.Fatal(err), log.Fatal(err).
C20_SimpleGuardIsFolded ==
    ScanReturned =>
        LET lines == ScannedLines
            c == Len(lines) - 1
            qualifying == SelectSeq(SubSeq(lines, 2, c), IsStatementLine)
            returns == {n \in 1..Len(qualifying) : ReturnShape(qualifying[n])}
        IN  /\ (/\ 0 \in HeadersOf(lines)
                /\ Len(qualifying) \in 1..3
                /\ \A n \in 1..Len(qualifying) : AllowedShape(qualifying[n])
                /\ Cardinality(returns) <= 1
                /\ ClosedDepthLines(lines, 0) # {}
                /\ SetMin(ClosedDepthLines(lines, 0)) = c
                /\ ClosesAtHeaderIndentation(lines, 0, c)
                /\ ~ClosedWithElse(lines, 0))
                   => /\ Len(ReturnedBlocks) = 1
                      /\ ReturnedBlocks[1].startLine = 0
                      /\ ReturnedBlocks[1].endLine = c
                      /\ ReturnedBlocks[1].bodyStatement = TrimmedBody(qualifying)
            /\ lines = <<HeaderLine, ExampleReturnLine, CloserLine>>
                   => /\ Len(ReturnedBlocks) = 1
                      /\ ReturnedBlocks[1].startLine = 0
                      /\ ReturnedBlocks[1].endLine = 2
                      /\ ReturnedBlocks[1].bodyStatement = ReturnErr
            /\ lines = <<HeaderLine, ExampleFatalLine, CloserLine>>
                   => /\ Len(ReturnedBlocks) = 1
                      /\ ReturnedBlocks[1].bodyStatement = LogFatalErr

\* A guard block whose body has three qualifying lines of allowed shapes,
\* one of them a return, has been scanned and one block returned.
C20_Witness ==
    /\ ScanReturned
    /\ Len(ReturnedBlocks) = 1
    /\ LET qualifying == QualifyingLines(ReturnedBlocks[1])
       IN  /\ Len(qualifying) = 3
           /\ \A n \in 1..3 : AllowedShape(qualifying[n])
           /\ \E n \in 1..3 : ReturnShape(qualifying[n])

----------------------------------------------------------------------------
(* The classification of bodies of up to four lines.                       *)

\* The lines of a body to classify: a return, a return in upper case, a
\* logging call, a call of no allowed shape, a blank line and a comment.
ClassifyLines ==
    {ExampleReturnLine, UpperReturnLine, ExampleFatalLine, CallLine, BlankLine,
     CommentLine}

\* The number of lines of a body to classify.
MaxClassifyLines == 4

\* The texts made of a header, a body of at most MaxClassifyLines lines and
\* a closing line.
ClassifyTexts ==
    {<<HeaderLine>> \o body \o <<CloserLine>> :
        body \in SeqsUpTo(ClassifyLines, MaxClassifyLines)}

\* The scanner on the texts with a body to classify, default fragments.
SpecClassify == ScanInit(ClassifyTexts, {DefaultPatterns}) /\ [][NextScan]_vars

\* The headers of lines whose brace is closed: the guard blocks.
GuardBlocks(lines) == {h \in HeadersOf(lines) : ClosedDepthLines(lines, h) # {}}

\* The qualifying lines of the body of the guard block at line h: the lines
\* between the header and the first line that closes its brace that are
\* neither blank nor a comment.
QualifyingOf(lines, h) ==
    SelectSeq(SubSeq(lines, h + 2, SetMin(ClosedDepthLines(lines, h))),
              IsStatementLine)

\* No block returned starts at line h.
NoBlockAt(h) == \A k \in 1..Len(ReturnedBlocks) : ReturnedBlocks[k].startLine # h

\* C21: no block is returned for a guard block whose body has no qualifying
\* line (an empty body, or blank and comment lines only) or more than three
\* qualifying lines.
C21_QualifyingLineCount ==
    ScanReturned =>
        \A h \in GuardBlocks(ScannedLines) :
            Len(QualifyingOf(ScannedLines, h)) \notin 1..3 => NoBlockAt(h)

\* A guard block of four qualifying lines, each of an allowed shape and one
\* of them a return, has been scanned and no block returned.
C21_Witness ==
    /\ ScanReturned
    /\ ReturnedBlocks = << >>
    /\ LET qualifying == QualifyingOf(ScannedLines, 0)
       IN  /\ Len(qualifying) = 4
           /\ \A n \in 1..4 : AllowedShape(qualifying[n])
           /\ Cardinality({n \in 1..4 : ReturnShape(qualifying[n])}) = 1

\* C22: no block is returned for a guard block two or more qualifying lines
\* of which are return statements, a line being a return statement when,
\* trimmed and letter case ignored, it begins with the word return.
C22_AtMostOneReturn ==
    ScanReturned =>
        \A h \in GuardBlocks(ScannedLines) :
            LET qualifying == QualifyingOf(ScannedLines, h)
            IN  Cardinality({n \in 1..Len(qualifying) : ReturnShape(qualifying[n])}) >= 2
                    => NoBlockAt(h)

\* The line, trimmed and letter case ignored, begins as a call of a
\* function of fmt that prints or formats.
FmtShape(line) ==
    LET l == Lowered(Trim(line))
    IN  /\ MatchLit(l, 1, <<"f", "m", "t", ".">>)
        /\ \E call \in FmtCalls : MatchLit(l, 5, Lowered(call))

\* The line, trimmed and letter case ignored, begins as a call of a logging
\* function of a logger of any name: name.Fatal, name.Error, name.Warn,
\* name.Info, name.Debug, name.Print.
NamespacedShape(line) ==
    LET l == Lowered(Trim(line))
    IN  \E d \in 2..Len(l) :
            /\ \A i \in 1..(d - 1) : IsWord(l[i])
            /\ l[d] = "."
            /\ \E call \in LoggerCalls : MatchLit(l, d + 1, Lowered(call))

\* The line has one of the shapes of a simple body.
SimpleShape(line) == AllowedShape(line) \/ FmtShape(line) \/ NamespacedShape(line)

\* .. cleanup() / return err ..
CleanupExample == <<HeaderLine, CallLine, ExampleReturnLine, CloserLine>>

\* C23: no block is returned for a guard block a qualifying line of which
\* has none of the shapes of a simple body; the body cleanup(), return err
\* and the body that is one call of another function yield no block.
C23_EveryLineHasAShape ==
    ScanReturned =>
        /\ \A h \in GuardBlocks(ScannedLines) :
               LET qualifying == QualifyingOf(ScannedLines, h)
               IN  (\E n \in 1..Len(qualifying) : ~SimpleShape(qualifying[n]))
                       => NoBlockAt(h)
        /\ ScannedLines \in {CleanupExample, <<HeaderLine, CallLine, CloserLine>>}
               => ReturnedBlocks = << >>

\* The body cleanup(), return err has been scanned.
C23_Witness ==
    /\ ScanReturned
    /\ ScannedLines = CleanupExample
    /\ ~SimpleShape(QualifyingOf(ScannedLines, 0)[1])

----------------------------------------------------------------------------
(* Scans repeated on the same lines.                                       *)

\* Texts scanned more than once: guard blocks that are folded, one after
\* the other, guard blocks that are not, and the document without text.
RescanTexts ==
    {SimpleBlock, SimpleBlock \o SimpleBlock, ElseExample, CleanupExample,
     EmptyText, <<HeaderLine, ExampleReturnLine, ExampleFatalLine, CloserLine>>,
     <<HeaderLine, ReturnLine>>, <<IndentedHeaderLine, LongReturnLine, IndentedCloserLine>>}

\* Both documents, of the same text, are scanned, their cache entries are
\* dropped and they are scanned again.
NextRescan ==
    \/ \E uri \in Uris : ScanDocument(uri)
    \/ \E uri \in Uris : InvalidateCache(uri)

SpecRescan == ScanInit(RescanTexts, {DefaultPatterns, NoPatterns}) /\ [][NextRescan]_vars

----------------------------------------------------------------------------
(* The cursor of the scan after a candidate that is not folded.            *)

\* The lines after a first header: a nested header, its body and its
\* closing line, and closing lines of the first header, with else or not.
CursorLines ==
    {IndentedHeaderLine, ReturnLine, IndentedCloserLine, CloserLine, CloserElseLine}

\* The number of lines after the first header.
MaxCursorLines == 4

\* A guard block with an else branch that holds a guard block:
\* if err != nil { return err } else { if err != nil { return err } }.
ElseBranchExample ==
    <<HeaderLine, ReturnLine, CloserElseLine, IndentedHeaderLine, ReturnLine,
      IndentedCloserLine, CloserLine>>

\* The texts made of a header and at most MaxCursorLines lines after it,
\* and the guard block with a guard block in its else branch.
CursorTexts ==
    {<<HeaderLine>> \o rest : rest \in SeqsUpTo(CursorLines, MaxCursorLines)}
        \cup {ElseBranchExample}

\* The scanner on the texts with a candidate at the first line.
SpecCursor == ScanInit(CursorTexts, {DefaultPatterns}) /\ [][NextScan]_vars

\* What findBlockEnd returns for the header at line h.
BlockEndOf(lines, h) == findBlockEnd(lines, h, LeadingSpace(lines[h + 1]))

\* The header at line h has a closing line and its body is simple: the
\* guard block is folded when the cursor comes to line h.
SimpleGuardAt(lines, h) ==
    /\ BlockEndOf(lines, h) # Null
    /\ isSimpleErrorReturn(BlockEndOf(lines, h)[1].bodyLines)

\* C28: when the first candidate of a text has a closing line at its
\* indentation and its body is not simple, no block returned starts at a
\* line from the header to the closing line: neither the candidate nor a
\* guard block in its body is folded.
C28_RejectedBodyIsSkipped ==
    ScanReturned /\ HeadersOf(ScannedLines) # {} =>
        LET h == SetMin(HeadersOf(ScannedLines))
            result == BlockEndOf(ScannedLines, h)
        IN  result # Null /\ ~isSimpleErrorReturn(result[1].bodyLines) =>
                \A k \in 1..Len(ReturnedBlocks) :
                    ReturnedBlocks[k].startLine \notin h..result[1].endLine

\* A guard block whose body is a guard block with a simple body has been
\* scanned, and no block returned.
C28_Witness ==
    /\ ScanReturned
    /\ ScannedLines = <<HeaderLine, IndentedHeaderLine, ReturnLine,
                        IndentedCloserLine, CloserLine>>
    /\ BlockEndOf(ScannedLines, 0) # Null
    /\ SimpleGuardAt(ScannedLines, 1)
    /\ ReturnedBlocks = << >>

\* The header at line h is rejected by block matching: no line closes its
\* brace, the line that does is not at the header's indentation, or an else
\* follows the closing brace.
RejectedByMatching(lines, h) ==
    \/ ClosedDepthLines(lines, h) = {} /\ GuardClosers(lines, h) = {}
    \/ /\ ClosedDepthLines(lines, h) # {}
       /\ ~ClosesAtHeaderIndentation(lines, h, SetMin(ClosedDepthLines(lines, h)))
    \/ ClosedWithElse(lines, h)

\* C29: when the first candidate of a text is rejected by block matching,
\* the next header of the text, in the rejected span or after it, is
\* examined: when it heads a guard block with a simple body, a block that
\* starts at its line is returned.
C29_NextHeaderIsExamined ==
    ScanReturned /\ HeadersOf(ScannedLines) # {} =>
        LET h == SetMin(HeadersOf(ScannedLines))
            later == {n \in HeadersOf(ScannedLines) : n > h}
        IN  (/\ RejectedByMatching(ScannedLines, h)
             /\ later # {}
             /\ SimpleGuardAt(ScannedLines, SetMin(later)))
                => \E k \in 1..Len(ReturnedBlocks) :
                       ReturnedBlocks[k].startLine = SetMin(later)

----------------------------------------------------------------------------
(* The commands and the event handlers of the extension.                   *)

\* The number of handlers that wait in a delay at a time.
MaxDelays == 1

\* The number of clock steps of a run of the extension.
MaxExtensionTicks == 2

\* The clock advances by the delay of one of the handlers.
DelaySteps == {OpenDelay, SaveDelay}

\* The commands on the active editor, the edits, saves and the closing of
\* its document, the delayed handlers and the configuration changes.
NextExtension ==
    \/ \E step \in DelaySteps : Tick(step, MaxExtensionTicks)
    \/ \E editor \in Editors, lines \in Texts : Edit(editor, lines)
    \/ \E editor \in Editors : Toggle(editor)
    \/ \E editor \in Editors : MakeTransparent(editor)
    \/ \E editor \in Editors : ResetTransparency(editor)
    \/ \E patterns \in Configs, editor \in Editors : ChangeConfig(patterns, editor)
    \/ \E editor \in Editors : OpenEditor(editor, MaxDelays)
    \/ \E d \in delays : ResumeOpen(d)
    \/ \E editor \in Editors : SaveDocument(editor, MaxDelays)
    \/ \E d \in delays : ResumeSave(d)
    \/ \E uri \in Editors : CloseDocument(uri)

SpecExtension == Init /\ [][NextExtension]_vars

\* The extension holds nothing for the document: no collapse state, no
\* cache entry and no hint decoration.
NothingHeldFor(uri) ==
    /\ uri \notin DOMAIN documentStates
    /\ uri \notin DOMAIN cache
    /\ \A h \in hintDecorations : h.uri # uri

\* C25: once a document is closed the extension holds no collapse state, no
\* cache entry and no hint decoration for it, whether a delay of
\* autoCollapseOnOpen or of autoCollapseOnSave for the document was pending
\* when it was closed and ends after, or not.
C25_ClosedDocumentHoldsNothing ==
    \A uri \in Uris \ openDocuments : NothingHeldFor(uri)

\* C26: when resetTransparency has run on an editor, no transparency
\* decoration made by the extension shows ranges in that editor, whatever
\* makeTransparent commands, saves and configuration changes came before.
C26_ResetRemovesTransparency ==
    lastOp.op = "resetTransparency" =>
        /\ \A n \in DOMAIN transparentDecoration :
               transparentDecoration[n].editor # lastOp.doc
        /\ \A o \in orphanDecorations : o.editor # lastOp.doc

\* The document of uri is collapsed: its state says isCollapsed.
IsCollapsed(states, uri) == uri \in DOMAIN states /\ states[uri].isCollapsed

\* C27: the toggle command on a collapsed document leaves it expanded
\* (isCollapsed false, its hints cleared), whatever the edits since it was
\* collapsed; on a document that is not collapsed and in which a block is
\* detected it leaves isCollapsed true.
C27_ToggleFlipsTheState ==
    [][lastOp'.op = "toggle" =>
          LET uri == lastOp'.doc
          IN  /\ IsCollapsed(documentStates, uri) =>
                     /\ ~IsCollapsed(documentStates', uri)
                     /\ \A h \in hintDecorations' : h.uri # uri
              /\ ~IsCollapsed(documentStates, uri) /\ Len(lastOp'.blocks) > 0 =>
                     IsCollapsed(documentStates', uri)]_vars


----------------------------------------------------------------------------
(* The loops of the scan, one iteration at a time.                         *)

\* The lines of the document that is being scanned.
DetectionLines == documents[detection.doc].lines

\* The scan d after it read line k (0-based): the number of times each line
\* was read, as lines[i] by performDetection or as lines[j] by findBlockEnd.
Visit(d, k) == [d EXCEPT !.visits[k + 1] = @ + 1]

\* The scan at the test of the main loop with cursor i, no walk under way.
AtMainLoop(d, i, blocks) ==
    [d EXCEPT !.phase = "loop", !.i = i, !.blocks = blocks,
              !.indentation = << >>, !.j = 0, !.braceCount = 0,
              !.bodyLines = << >>]

\* performDetection from the test of its while loop to findBlockEnd's
\* first test or, on a line that is no header, to i++.
iterate(lines, patterns, d) ==
    LET match == ifErrMatch(lines[d.i + 1], patterns)
        v == Visit(d, d.i)
    IN  IF match = Null THEN AtMainLoop(v, d.i + 1, d.blocks)
        ELSE [v EXCEPT !.phase = "walk",
                       !.indentation = match[1].indentation,
                       !.j = d.i + 1, !.braceCount = 1, !.bodyLines = << >>]

\* One iteration of findBlockEnd's loop that leaves the index where it is
\* on a closing line that does not close the header (no j++).
walk_KeepsIndex(lines, patterns, d) ==
    LET currentLine == lines[d.j + 1]
        count == d.braceCount + CountChar(currentLine, "{")
                              - CountChar(currentLine, "}")
        p == SkipSpaces(currentLine, 1)
        closingMatch == MatchLit(currentLine, p, <<"}">>)
        line == lines[d.i + 1]
        endLine == d.j
        bodyStatement == extractBodyStatement(d.bodyLines)
        block == [startLine |-> d.i,
                  endLine |-> endLine,
                  bodyStartLine |-> d.i + 1,
                  indentation |-> d.indentation,
                  collapsedText |-> generateCollapsedText(line, bodyStatement),
                  bodyStatement |-> bodyStatement,
                  fullRange |-> [startLine |-> d.i, startCharacter |-> 0,
                                 endLine |-> endLine,
                                 endCharacter |-> Len(lines[endLine + 1])]]
        v == Visit(d, d.j)
    IN  IF ~(d.j < Len(lines) /\ d.braceCount > 0)
        THEN AtMainLoop(d, d.i + 1, d.blocks)
        ELSE IF count > 0
        THEN [v EXCEPT !.j = d.j + 1, !.braceCount = count,
                       !.bodyLines = Append(d.bodyLines, currentLine)]
        ELSE IF closingMatch /\ SubSeq(currentLine, 1, p - 1) = d.indentation
        THEN IF \/ HasElseAfterBrace(currentLine)
                \/ (d.j + 1 < Len(lines) /\ StartsWithElse(lines[d.j + 2]))
             THEN AtMainLoop(v, d.i + 1, d.blocks)
             ELSE AtMainLoop(v, endLine + 1,
                             IF isSimpleErrorReturn(d.bodyLines)
                             THEN Append(d.blocks, block) ELSE d.blocks)
        ELSE [v EXCEPT !.braceCount = count]

\* findBlockEnd from the test of its while loop: one iteration, or the
\* return to performDetection, which pushes the block of a simple body and
\* sets its cursor (i = endLine + 1 after a result, i++ after null).
walk(lines, patterns, d) ==
    LET currentLine == lines[d.j + 1]
        count == d.braceCount + CountChar(currentLine, "{")
                              - CountChar(currentLine, "}")
        p == SkipSpaces(currentLine, 1)
        closingMatch == MatchLit(currentLine, p, <<"}">>)
        line == lines[d.i + 1]
        endLine == d.j
        bodyStatement == extractBodyStatement(d.bodyLines)
        block == [startLine |-> d.i,
                  endLine |-> endLine,
                  bodyStartLine |-> d.i + 1,
                  indentation |-> d.indentation,
                  collapsedText |-> generateCollapsedText(line, bodyStatement),
                  bodyStatement |-> bodyStatement,
                  fullRange |-> [startLine |-> d.i, startCharacter |-> 0,
                                 endLine |-> endLine,
                                 endCharacter |-> Len(lines[endLine + 1])]]
        v == Visit(d, d.j)
    IN  IF ~(d.j < Len(lines) /\ d.braceCount > 0)
        THEN AtMainLoop(d, d.i + 1, d.blocks)
        ELSE IF count > 0
        THEN [v EXCEPT !.j = d.j + 1, !.braceCount = count,
                       !.bodyLines = Append(d.bodyLines, currentLine)]
        ELSE IF closingMatch /\ SubSeq(currentLine, 1, p - 1) = d.indentation
        THEN IF \/ HasElseAfterBrace(currentLine)
                \/ (d.j + 1 < Len(lines) /\ StartsWithElse(lines[d.j + 2]))
             THEN AtMainLoop(v, d.i + 1, d.blocks)
             ELSE AtMainLoop(v, endLine + 1,
                             IF isSimpleErrorReturn(d.bodyLines)
                             THEN Append(d.blocks, block) ELSE d.blocks)
        ELSE [v EXCEPT !.j = d.j + 1, !.braceCount = count]

\* What the scan does next from d.
scanStep(lines, patterns, d) ==
    IF d.phase = "walk" THEN walk(lines, patterns, d)
    ELSE IF d.i < Len(lines) THEN iterate(lines, patterns, d)
    ELSE [d EXCEPT !.phase = "done"]

\* performDetection is called on a document: let i = 0, no block yet.
StartDetection(uri) ==
    /\ detection.phase \in {"idle", "done"}
    /\ detection' = [NoScan EXCEPT !.phase = "loop", !.doc = uri,
                                   !.visits = [k \in 1..Len(documents[uri].lines) |-> 0]]
    /\ UNCHANGED <<documents, errorPatterns, now, ticks, cache, debounceTimers,
                   timeouts, nextTimer, documentStates, invalidated, lastOp,
                   openDocuments, transparentDecoration, orphanDecorations,
                   hintDecorations, delays>>

\* One iteration of the main loop begins at line i.
Iterate ==
    /\ detection.phase = "loop"
    /\ detection.i < Len(DetectionLines)
    /\ detection' = iterate(DetectionLines, errorPatterns, detection)
    /\ UNCHANGED <<documents, errorPatterns, now, ticks, cache, debounceTimers,
                   timeouts, nextTimer, documentStates, invalidated, lastOp,
                   openDocuments, transparentDecoration, orphanDecorations,
                   hintDecorations, delays>>

\* findBlockEnd tests its loop and runs one iteration or returns.
Walk ==
    /\ detection.phase = "walk"
    /\ detection' = walk(DetectionLines, errorPatterns, detection)
    /\ UNCHANGED <<documents, errorPatterns, now, ticks, cache, debounceTimers,
                   timeouts, nextTimer, documentStates, invalidated, lastOp,
                   openDocuments, transparentDecoration, orphanDecorations,
                   hintDecorations, delays>>

\* The main loop ends (i = lines.length) and the blocks are returned.
Finish ==
    /\ detection.phase = "loop"
    /\ ~(detection.i < Len(DetectionLines))
    /\ detection' = [detection EXCEPT !.phase = "done"]
    /\ UNCHANGED <<documents, errorPatterns, now, ticks, cache, debounceTimers,
                   timeouts, nextTimer, documentStates, invalidated, lastOp,
                   openDocuments, transparentDecoration, orphanDecorations,
                   hintDecorations, delays>>

\* The document of the active editor is scanned, iteration by iteration.
NextLoop ==
    \/ \E uri \in Editors : StartDetection(uri)
    \/ Iterate
    \/ Walk
    \/ Finish

\* The loops of the scan on the texts with a candidate at the first line.
SpecLoop == ScanInit(CursorTexts, {DefaultPatterns}) /\ [][NextLoop]_vars

\* The scan of d's document is under way.
Scanning(d) == d.phase \in {"loop", "walk"}

\* The number of loop tests the scan can still make from d in a text of n
\* lines: the lines at and after the cursor, each with the lines that a
\* walk from it can visit.
StepsLeft(d, n) ==
    IF ~Scanning(d) THEN 0
    ELSE (n - d.i) * (n + 3)
             + (IF d.phase = "loop" THEN n + 2 ELSE n - d.j + 1) + 1

\* C30: the scan terminates. While a scan is under way its cursor and the
\* index of its walk are within the text; what it does next makes no
\* further test possible than before (the measure StepsLeft falls and is
\* never negative); the step that ends an iteration of the main loop
\* leaves the cursor greater than it was and at most the number of lines;
\* a step from one iteration of the brace walk to the next adds one to its
\* index, and the walk at the end of the input ends.
C30_ScanTerminates ==
    Scanning(detection) =>
        LET lines == DetectionLines
            n == Len(lines)
            next == scanStep(lines, errorPatterns, detection)
        IN  /\ detection.i \in 0..n
            /\ detection.phase = "walk" => detection.j \in 1..n
            /\ StepsLeft(detection, n) > StepsLeft(next, n)
            /\ StepsLeft(next, n) >= 0
            /\ next.phase = "loop" => next.i > detection.i /\ next.i <= n
            /\ detection.phase = "walk" /\ next.phase = "walk" =>
                   next.j = detection.j + 1 /\ next.j <= n
            /\ detection.phase = "walk" /\ detection.j = n =>
                   next.phase = "loop"

\* A walk is at the end of the input with a brace still open (the header
\* at the cursor is never closed), after an earlier block was emitted.
C30_Witness ==
    /\ detection.phase = "walk"
    /\ detection.j = Len(DetectionLines)
    /\ detection.braceCount > 0
    /\ detection.blocks # << >>

----------------------------------------------------------------------------
(* The number of times a scan reads a line.                                *)

\* C31: during a scan no line is read more often than a number that does
\* not depend on the length of the text: a line is read at most twice,
\* once by the main loop as a candidate header and once by a brace walk.
C31_LinesAreReadTwiceAtMost ==
    detection.phase # "idle" =>
        \A k \in DOMAIN detection.visits : detection.visits[k] <= 2

----------------------------------------------------------------------------
(* Blank lines and comment lines in the body of a guard block.             *)

\* \t// }
BraceCommentLine == <<"\t", "/", "/", " ", "}">>

\* The lines of a body with lines to ignore: statements, a blank line, a
\* comment and a comment that holds a brace.
CommentedLines ==
    {ExampleReturnLine, ExampleFatalLine, CallLine, BlankLine, CommentLine,
     BraceCommentLine}

\* The number of lines of a body with lines to ignore.
MaxCommentedLines == 4

\* The texts made of a header, at most MaxCommentedLines lines and a
\* closing line.
CommentedTexts ==
    {<<HeaderLine>> \o body \o <<CloserLine>> :
        body \in SeqsUpTo(CommentedLines, MaxCommentedLines)}

\* The scanner on the texts with lines to ignore, default fragments.
SpecCommented == ScanInit(CommentedTexts, {DefaultPatterns}) /\ [][NextScan]_vars

\* The lines without line k (1-based).
WithoutLine(lines, k) == SubSeq(lines, 1, k - 1) \o SubSeq(lines, k + 1, Len(lines))

\* What a scan tells of the guard at the first line: Null when no block is
\* emitted for it, or the bodyStatement of its block.
FirstGuard(blocks) ==
    IF blocks # << >> /\ blocks[1].startLine = 0
    THEN <<blocks[1].bodyStatement>> ELSE Null

\* The line holds a brace.
HoldsBrace(line) == CountChar(line, "{") + CountChar(line, "}") > 0

\* The places (1-based) between the header and the last line of the text
\* scanned that hold a blank line or a comment-only line.
IgnoredPlaces ==
    {k \in 2..(Len(ScannedLines) - 1) : ~IsStatementLine(ScannedLines[k])}

\* C32 as stated: a blank line or a comment-only line in a body is ignored.
\* The scan of the text and the scan of the text without that line agree on
\* whether the guard's block is emitted and on its bodyStatement.
C32_IgnoredLinesChangeNothing ==
    ScanReturned =>
        \A k \in IgnoredPlaces :
            FirstGuard(ReturnedBlocks)
                = FirstGuard(performDetection(WithoutLine(ScannedLines, k),
                                              errorPatterns))

\* C32, amended: a blank line or a comment-only line without a brace in a
\* body is ignored. The scan of the text and the scan of the text without
\* that line agree on whether the guard's block is emitted and on its
\* bodyStatement. (The braces of a comment are counted by the brace walk.)
C32_BracelessIgnoredLinesChangeNothing ==
    ScanReturned =>
        \A k \in IgnoredPlaces :
            ~HoldsBrace(ScannedLines[k]) =>
                FirstGuard(ReturnedBlocks)
                    = FirstGuard(performDetection(WithoutLine(ScannedLines, k),
                                                  errorPatterns))

\* A block is emitted for a body of three statements and a comment: were
\* the comment counted, the body would be over the limit of three lines.
C32_Witness ==
    /\ ScanReturned
    /\ FirstGuard(ReturnedBlocks) # Null
    /\ Len(ScannedLines) = 6
    /\ \E k \in IgnoredPlaces : ScannedLines[k] = CommentLine
    /\ Cardinality({k \in 2..5 : IsStatementLine(ScannedLines[k])}) = 3

----------------------------------------------------------------------------
(* The cache entry of a document after a detection, and its age.           *)

\* C33: right after a detectErrorBlocks call for a document returns, the
\* cache holds an entry for the document and the entry is of the version
\* the document had at the call; the cache is a map keyed by the uri, so it
\* holds one entry for a document at most, and only entries of documents.
C33_OneEntryOfTheVersion ==
    /\ DOMAIN cache \subseteq Uris
    /\ lastOp.detected =>
           /\ lastOp.doc \in DOMAIN cache
           /\ cache[lastOp.doc].version = documents[lastOp.doc].version

\* A detectErrorBlocks call found an entry of an earlier version of the
\* document and returned, the cache holding an entry of the other document
\* too.
C33_Witness ==
    /\ lastOp.detected
    /\ lastOp.entry = "otherVersion"
    /\ DOMAIN cache = Uris

\* C34: a detectErrorBlocks call that serves the cached blocks leaves the
\* cache as it was, the version, the blocks and the timestamp of the entry
\* served included, and the entry it serves was written less than 5000 ms
\* before the read.
C34_ReadLeavesTheEntry ==
    [][lastOp'.detected /\ ~lastOp'.scanned =>
           /\ cache' = cache
           /\ lastOp'.doc \in DOMAIN cache
           /\ now' - cache[lastOp'.doc].timestamp < CACHE_TTL
           /\ lastOp'.blocks = cache[lastOp'.doc].blocks]_vars

\* The closure of a timer is served the cached blocks two debounce delays
\* or more after the scan that stored them: the entry still carries the
\* time of the scan.
C34_Witness ==
    /\ lastOp.detected
    /\ ~lastOp.scanned
    /\ lastOp.op = "fire"
    /\ now >= cache[lastOp.doc].timestamp + DEBOUNCE_DELAY + DEBOUNCE_DELAY

----------------------------------------------------------------------------
(* invalidateCache and the debounce timer of the document.                 *)

\* C35: invalidateCache for a document deletes the cache entry of the
\* document and changes nothing else: the other entries, the timer map and
\* the pending timeouts stay, so a timeout pending for the document stays
\* pending. When a timeout fires for a document, its closure calls
\* detectErrorBlocks and hands the blocks to the callback: the cache then
\* holds for the document a valid entry with the blocks handed over, and
\* when no detection came between the invalidation and the firing, the
\* closure runs performDetection and the entry is the one it stores then.
C35_InvalidateLeavesTheTimer ==
    [][/\ lastOp'.op = "invalidateCache" =>
              /\ cache' = MapDelete(cache, lastOp'.doc)
              /\ debounceTimers' = debounceTimers
              /\ timeouts' = timeouts
              /\ documents' = documents
              /\ documentStates' = documentStates
       /\ lastOp'.op = "fire" =>
              /\ lastOp'.doc \in DOMAIN cache'
              /\ cache'[lastOp'.doc].version = documents'[lastOp'.doc].version
              /\ now' - cache'[lastOp'.doc].timestamp < CACHE_TTL
              /\ cache'[lastOp'.doc].blocks = lastOp'.blocks
              /\ lastOp'.after # "other" =>
                     /\ lastOp'.scanned
                     /\ cache'[lastOp'.doc].timestamp = now'
                     /\ lastOp'.blocks = Scanner(lastOp'.doc, errorPatterns)]_vars

\* A timeout fires right after the invalidateCache call that removed the
\* valid entry of its document, during which it was pending: its closure
\* runs performDetection and blocks are handed to the callback.
C35_Witness ==
    /\ lastOp.op = "fire"
    /\ lastOp.after = "invalidateValid"
    /\ lastOp.scanned
    /\ lastOp.blocks # << >>
    /\ lastOp.doc \in DOMAIN cache

----------------------------------------------------------------------------
(* The hint decorations of documents whose uris begin alike.               *)

\* The documents that get hints: the documents with a file and two
\* documents without one.
HintUris == Uris \cup {UntitledOne, UntitledTen}

\* The highest line a block to hint at starts at.
MaxHintLine == 1

\* The lists of blocks handed to applyCollapsedHints, as far as it reads
\* them for the key of a hint: the start lines, ascending.
HintBlocks ==
    {<< >>}
        \cup {<<[startLine |-> n]>> : n \in 0..MaxHintLine}
        \cup {<<[startLine |-> p[1]], [startLine |-> p[2]]>> :
                  p \in {q \in (0..MaxHintLine) \X (0..MaxHintLine) : q[1] < q[2]}}

\* DecorationManager.applyCollapsedHints is called on the editor of a
\* document with the blocks to hint at.
ApplyCollapsedHints(uri, blocks) ==
    /\ hintDecorations' = applyCollapsedHints(hintDecorations, uri, blocks)
    /\ lastOp' = Observation("applyCollapsedHints", uri, "unread", FALSE, NoResult, Null)
    /\ UNCHANGED <<documents, errorPatterns, now, ticks, cache, debounceTimers,
                   timeouts, nextTimer, documentStates, invalidated,
                   openDocuments, transparentDecoration, orphanDecorations,
                   delays, detection>>

\* DecorationManager.clearHints is called with the uri of a document.
ClearHints(uri) ==
    /\ hintDecorations' = clearHints(hintDecorations, uri)
    /\ lastOp' = Observation("clearHints", uri, "unread", FALSE, NoResult, Null)
    /\ UNCHANGED <<documents, errorPatterns, now, ticks, cache, debounceTimers,
                   timeouts, nextTimer, documentStates, invalidated,
                   openDocuments, transparentDecoration, orphanDecorations,
                   delays, detection>>

\* Hints are applied and cleared for the documents.
NextHints ==
    \/ \E uri \in HintUris, blocks \in HintBlocks : ApplyCollapsedHints(uri, blocks)
    \/ \E uri \in HintUris : ClearHints(uri)

\* The decoration manager under calls for documents whose uris begin alike.
SpecHints == Init /\ [][NextHints]_vars

\* C36: clearHints(uri) removes the hints made for the document of that
\* uri and no other: the hints of every other document are left in place,
\* also those of a document whose uri begins with uri.
C36_ClearHintsOfOneDocument ==
    [][lastOp'.op = "clearHints" =>
           hintDecorations' = {h \in hintDecorations : h.uri # lastOp'.doc}]_vars

----------------------------------------------------------------------------
(* The collapse state of a document when it is saved.                      *)

\* The document's state says its blocks are transparent (a document
\* without a state is not transparent).
IsTransparent(states, uri) == uri \in DOMAIN states /\ states[uri].isTransparent

\* C37: handling a save does not make a document collapsed that was not and
\* does not change whether it is transparent. The handler drops the cache
\* entry of the document before its delay; after the delay it folds (and
\* hints) again only when the document is collapsed then, and applies the
\* transparency again only when the document is transparent then.
C37_SaveKeepsTheState ==
    [][LET uri == lastOp'.doc
       IN  /\ lastOp'.op = "saveDocument" =>
                  /\ uri \notin DOMAIN cache'
                  /\ IsCollapsed(documentStates', uri) = IsCollapsed(documentStates, uri)
                  /\ IsTransparent(documentStates', uri)
                         = IsTransparent(documentStates, uri)
           /\ lastOp'.op = "resumeSave" =>
                  /\ IsTransparent(documentStates', uri)
                         = IsTransparent(documentStates, uri)
                  /\ ~IsCollapsed(documentStates, uri) =>
                         /\ ~IsCollapsed(documentStates', uri)
                         /\ hintDecorations' = hintDecorations
                  /\ ~IsTransparent(documentStates, uri) =>
                         /\ transparentDecoration' = transparentDecoration
                         /\ orphanDecorations' = orphanDecorations]_vars
====
